---- MODULE Spec2Model ----
(***************************************************************************)
(* Model of the radio session manager of discord-bot-alastor               *)
(* (src/src/commands/radio.py).  Every command handler is an asyncio       *)
(* coroutine: it runs atomically between two awaits that suspend it, and   *)
(* the coroutines of concurrent invocations interleave at those awaits.    *)
(* One action of the model is one such atomic segment.                     *)
(***************************************************************************)
EXTENDS Naturals, Sequences, FiniteSets, TLC

VARIABLES
    guilds,            \* the guilds the bot is a member of
    RADIOS,            \* radio.py:21   global stations: name -> [url]
    current_radios,    \* radio.py:24   the session table, a dict keyed by guild id
    stream_cache,      \* radio.py:25   url -> [resolved_url, timestamp]
    server_stations,   \* radio.py:26   guild -> name -> station
    auto_leave_tasks,  \* radio.py:919  guild -> task, a dict held as its set of items
    snapshot,          \* the content of STATE_FILE (radio.py:27)
    now,               \* time.time()
    vcs,               \* the voice clients of the transport, by handle
    play,              \* the invocations of play_radio_static
    stop,              \* the invocations of stop_radio_static
    hist,              \* history of each play invocation (not program state)
    members,           \* the voice channel each non-bot member is in
    tasks,             \* the tasks running check_voice_channel_empty
    notified,          \* the guilds the "thanks for listening" message was sent to
    emptied,           \* how often an event found each session alone (not program state)
    resolve,           \* the invocations of resolve_stream_url on their own
    validate,          \* the last call of is_safe_url: its argument and its result
    adds,              \* the invocations of station_add
    remove,            \* the last call of station_remove: its arguments and its result
    disk,              \* whether STATE_FILE can be written, how the last write and the read ended
    config,            \* config["radios"], radio.py:20-21, read when the process starts
    boots              \* how often the process was started again

vars == <<guilds, RADIOS, current_radios, stream_cache, server_stations,
          auto_leave_tasks, snapshot, now, vcs, play, stop, hist,
          members, tasks, notified, emptied, resolve, validate,
          adds, remove, disk, config, boots>>

(***************************************************************************)
(* Bounds of the model.                                                    *)
(***************************************************************************)
MaxCalls == 3          \* invocations of the command handlers started in one run
MaxTimers == 2         \* idle timers started in one run
MaxResolves == 2       \* calls of resolve_stream_url in one run of the resolver
MaxRestarts == 1       \* starts of the process after the first one

Plays == {1, 2}         \* the invocations of play_radio_static
Stops == {1, 2}         \* the invocations of stop_radio_static
Timers == 1..MaxTimers  \* the tasks of check_voice_channel_empty
Resolvers == 1..MaxResolves
Adds == {1, 2}          \* the invocations of station_add
Callers == {"admin", "user"}   \* interaction.user of the station commands
AllGuilds == {1, 2}
Members == {"m1", "m2"}
Channels == {"c1", "c2"}
NoChannel == "none"
NoFile == [file |-> "missing"]
NoneVal == "None"
FetchError == <<"fetch failed">>

CACHE_DURATION == 3600

\* the values of time.time() the runs of the resolver pass through: they put
\* an entry of the cache one second before its expiry, at it and after it
Times == {0, CACHE_DURATION - 1, CACHE_DURATION, CACHE_DURATION + CACHE_DURATION}

(***************************************************************************)
(* Strings.                                                                *)
(***************************************************************************)
UpperChars == "ABCDEFGHIJKLMNOPQRSTUVWXYZ"
LowerChars == "abcdefghijklmnopqrstuvwxyz"

CharAt(s, i) == SubSeq(s, i, i)

LowerChar(c) ==
    IF \E i \in 1..Len(UpperChars) : CharAt(UpperChars, i) = c
    THEN CharAt(LowerChars, CHOOSE i \in 1..Len(UpperChars) : CharAt(UpperChars, i) = c)
    ELSE c

RECURSIVE Lower(_)
Lower(s) == IF Len(s) = 0 THEN "" ELSE LowerChar(CharAt(s, 1)) \o Lower(Tail(s))

StartsWith(s, p) == Len(s) >= Len(p) /\ SubSeq(s, 1, Len(p)) = p

EndsWith(s, p) == Len(s) >= Len(p) /\ SubSeq(s, Len(s) - Len(p) + 1, Len(s)) = p

Contains(s, p) == \E i \in 1..Len(s) : StartsWith(SubSeq(s, i, Len(s)), p)

RECURSIVE LStrip(_)
LStrip(s) == IF Len(s) > 0 /\ CharAt(s, 1) = " " THEN LStrip(Tail(s)) ELSE s

RECURSIVE RStrip(_)
RStrip(s) ==
    IF Len(s) > 0 /\ CharAt(s, Len(s)) = " " THEN RStrip(SubSeq(s, 1, Len(s) - 1)) ELSE s

Strip(s) == RStrip(LStrip(s))

\* line.split("=", 1)[1]: what follows the first "="
AfterFirstEq(s) ==
    LET i == CHOOSE k \in 1..Len(s) :
                 CharAt(s, k) = "=" /\ \A j \in 1..(k - 1) : CharAt(s, j) # "="
    IN  SubSeq(s, i + 1, Len(s))

(***************************************************************************)
(* The stations and the playlists the bounded runs draw from.              *)
(***************************************************************************)
UrlDirect == "http://radio.example/live.mp3"
UrlM3u == "http://radio.example/list.M3U"
UrlPls == "http://radio.example/list.pls"
StreamA == "http://stream.example/a"
StreamB == "http://stream.example/b"

UrlM3u8 == "http://radio.example/list.m3u8"

Urls == {UrlDirect, UrlM3u, UrlPls, UrlM3u8}

ConfigRadios == [n \in {"A", "B"} |-> [url |-> IF n = "A" THEN UrlDirect ELSE UrlM3u]]

\* config.yaml after an edit that adds the station X to its radios
ConfigNext == [n \in {"A", "B", "X"} |-> [url |-> IF n = "B" THEN UrlM3u ELSE UrlDirect]]

Configs == {ConfigRadios, ConfigNext}

\* the urls station_add is called with
UrlUnsafe == "http://localhost/live.mp3"

AddUrls == {UrlDirect, UrlM3u, UrlUnsafe}
StationNames == {"A", "B", "X"}

Bodies ==
    { <<"#comment", "", " " \o StreamA, StreamB>>,
      <<"#EXTM3U", "ftp://x/y">>,
      <<"[playlist]", "File1=" \o StreamA, "File2=" \o StreamB>>,
      <<"[playlist]", "NumberOfEntries=3", "File1=ftp://x/y", "Title1=" \o StreamA,
        "File2=" \o StreamB, "File3=" \o StreamA>> }

(***************************************************************************)
(* URL Resolver.                                                           *)
(***************************************************************************)
\* lower_url.endswith((".m3u", ".m3u8", ".pls"))
HasPlaylistExtension(url) ==
    LET lower_url == Lower(url)
    IN  EndsWith(lower_url, ".m3u") \/ EndsWith(lower_url, ".m3u8") \/ EndsWith(lower_url, ".pls")

\* the same, tabulated once over the urls of the bounded runs
PlaylistUrls == {u \in Urls : HasPlaylistExtension(u)}

PlsUrls == {u \in Urls : EndsWith(Lower(u), ".pls")}

\* a test of the extension that takes every url for a playlist
EveryUrlIsPlaylist(url) == TRUE

IsPlaylistUrl(url) == url \in PlaylistUrls

\* a cache check that never finds an entry
CacheNeverHit(cache, url, t) == FALSE

\* the cache check at the head of resolve_stream_url
CacheHit(cache, url, t) ==
    url \in DOMAIN cache /\ t - cache[url].timestamp < CACHE_DURATION

\* a lookup that keeps an expired entry
CacheKeepExpired(cache, url, t) == cache

CacheAfterLookup(cache, url, t) ==
    IF url \in DOMAIN cache /\ ~CacheHit(cache, url, t)
    THEN [u \in DOMAIN cache \ {url} |-> cache[u]]
    ELSE cache

CachePut(cache, url, resolved, t) ==
    [u \in DOMAIN cache \cup {url} |->
        IF u = url THEN [resolved_url |-> resolved, timestamp |-> t] ELSE cache[u]]

PlsEntry(line) ==
    LET l == Strip(line)
    IN  IF StartsWith(l, "File") /\ Contains(l, "=")
             /\ (StartsWith(AfterFirstEq(l), "http") \/ StartsWith(AfterFirstEq(l), "https"))
        THEN AfterFirstEq(l)
        ELSE NoneVal

M3uEntry(line) ==
    LET l == Strip(line)
    IN  IF l # "" /\ ~StartsWith(l, "#") /\ (StartsWith(l, "http") \/ StartsWith(l, "https"))
        THEN l
        ELSE NoneVal

\* the last line of the body that yields an entry
RECURSIVE LastEntry(_, _)
LastEntry(text, pls) ==
    IF Len(text) = 0 THEN NoneVal
    ELSE LET e == IF pls THEN PlsEntry(text[Len(text)]) ELSE M3uEntry(text[Len(text)])
         IN  IF e # NoneVal THEN e ELSE LastEntry(SubSeq(text, 1, Len(text) - 1), pls)

\* the first line of the body that yields an entry, NoneVal when no line does
RECURSIVE FirstEntry(_, _)
FirstEntry(text, pls) ==
    IF Len(text) = 0 THEN NoneVal
    ELSE LET e == IF pls THEN PlsEntry(Head(text)) ELSE M3uEntry(Head(text))
         IN  IF e # NoneVal THEN e ELSE FirstEntry(Tail(text), pls)

\* the parse of each body of the bounded runs, as a .pls and as a .m3u/.m3u8
ParsedBodies == [body \in Bodies |-> [pls \in BOOLEAN |-> FirstEntry(body, pls)]]

\* resolve_stream_url after the fetch of a playlist url returned `body`
\* (FetchError: the request raised): [value, cache]
ResolveFetched(cache, url, body, t) ==
    IF body = FetchError THEN [value |-> NoneVal, cache |-> cache]
    ELSE LET e == ParsedBodies[body][(url \in PlsUrls)]
         IN  IF e # NoneVal
             THEN [value |-> e, cache |-> CachePut(cache, url, e, t)]
             ELSE [value |-> url, cache |-> cache]

(***************************************************************************)
(* resolve_stream_url called on its own.  A call is suspended at the fetch *)
(* of the playlist; calls overlap there.  Each call keeps what it was      *)
(* called with and what it found: the entry of the cache for its url when  *)
(* it began (seen) and when it returned (left), whether it fetched, and    *)
(* the body the fetch returned.                                            *)
(***************************************************************************)
NoEntry == [resolved_url |-> NoneVal, timestamp |-> 0]
NoBody == <<>>

NewResolve == [pc |-> "new", url |-> "", value |-> "", fetched |-> FALSE,
               seen |-> NoEntry, left |-> NoEntry, began |-> 0, body |-> NoBody]

CacheEntry(cache, url) == IF url \in DOMAIN cache THEN cache[url] ELSE NoEntry

\* lines 83-92: the cache check and the test of the extension
ResolveCall(r, url) ==
    /\ resolve[r].pc = "new"
    /\ \A q \in Resolvers : q < r => resolve[q].pc # "new"
    /\ LET called == [NewResolve EXCEPT !.url = url, !.began = now,
                                        !.seen = CacheEntry(stream_cache, url)]
       IN  IF CacheHit(stream_cache, url, now)
           THEN /\ resolve' = [resolve EXCEPT ![r] =
                                 [called EXCEPT !.pc = "done",
                                                !.value = stream_cache[url].resolved_url,
                                                !.left = stream_cache[url]]]
                /\ stream_cache' = stream_cache
           ELSE /\ stream_cache' = CacheAfterLookup(stream_cache, url, now)
                /\ resolve' = [resolve EXCEPT ![r] =
                                 IF IsPlaylistUrl(url)
                                 THEN [called EXCEPT !.pc = "fetch", !.fetched = TRUE]
                                 ELSE [called EXCEPT !.pc = "done", !.value = url]]
    /\ UNCHANGED <<guilds, RADIOS, current_radios, server_stations, auto_leave_tasks,
                   snapshot, now, vcs, play, stop, hist, members, tasks, notified,
                   emptied, validate>>
    /\ UNCHANGED <<adds, remove, disk, config, boots>>

\* lines 93-126: the fetch returned a body or raised
ResolveReturn(r) ==
    /\ resolve[r].pc = "fetch"
    /\ \E body \in Bodies \cup {FetchError} :
         LET res == ResolveFetched(stream_cache, resolve[r].url, body, now)
         IN  /\ stream_cache' = res.cache
             /\ resolve' = [resolve EXCEPT ![r].pc = "done", ![r].value = res.value,
                                           ![r].body = body,
                                           ![r].left = CacheEntry(res.cache, resolve[r].url)]
    /\ UNCHANGED <<guilds, RADIOS, current_radios, server_stations, auto_leave_tasks,
                   snapshot, now, vcs, play, stop, hist, members, tasks, notified,
                   emptied, validate>>
    /\ UNCHANGED <<adds, remove, disk, config, boots>>

\* time.time() advances
Tick(t) ==
    /\ t > now
    /\ now' = t
    /\ UNCHANGED <<guilds, RADIOS, current_radios, stream_cache, server_stations,
                   auto_leave_tasks, snapshot, vcs, play, stop, hist, members, tasks,
                   notified, emptied, resolve, validate>>
    /\ UNCHANGED <<adds, remove, disk, config, boots>>

(***************************************************************************)
(* Safety Validator: is_safe_url, lines 143-185.  re.search(pattern, s) of *)
(* a pattern without operators is the search of a substring.               *)
(***************************************************************************)
\* re.search(r'\.(e1|e2|...)($|\?)', s)
SearchExtension(s, exts) ==
    \E e \in exts : \E i \in 1..Len(s) :
        /\ StartsWith(SubSeq(s, i, Len(s)), "." \o e)
        /\ (i + Len(e) = Len(s) \/ CharAt(s, i + Len(e) + 1) = "?")

\* r'172\.(1[6-9]|2[0-9]|3[01])\.'
Private172 ==
    {"172." \o n \o "." : n \in {"16", "17", "18", "19", "20", "21", "22", "23",
                                  "24", "25", "26", "27", "28", "29", "30", "31"}}

suspicious_patterns ==
    {"localhost", "127.0.0.1", "0.0.0.0", "[::1]", "192.168.", "10.",
     "file://", "ftp://", "sftp://", "javascript:", "data:", "vbscript:"} \cup Private172

executable_extensions == {"exe", "bat", "cmd", "scr", "pif", "com"}

streaming_words == {"icecast", "shoutcast", "stream", "/live/", "/radio/", "/stream/"}

trusted_domains ==
    {"bbc.co.uk", "ndr.de", "wdr.de", "swr.de", "br.de", "ard.de", "deutschlandfunk.de",
     "ffn.de", "absolutradio.de", "ilovemusic.de", "pride1.de", "radio.de", "tune.in",
     "stream.live", "icecast"}

ReasonScheme == "URL must start with http:// or https://"
ReasonBlocked == "URL appears to be unsafe or blocked"
ReasonUnknown == "URL doesn't appear to be from a recognized streaming service"
ReasonSafe == "URL appears safe"

is_safe_url(url) ==
    LET lower == Lower(url)
    IN  IF ~(StartsWith(url, "http://") \/ StartsWith(url, "https://"))
        THEN [safe |-> FALSE, reason |-> ReasonScheme]
        ELSE IF \/ \E pattern \in suspicious_patterns : Contains(lower, pattern)
                \/ SearchExtension(lower, executable_extensions)
        THEN [safe |-> FALSE, reason |-> ReasonBlocked]
        ELSE IF /\ ~SearchExtension(lower, {"mp3", "aac", "ogg", "wav", "flac", "m4a"})
                /\ ~SearchExtension(lower, {"m3u", "m3u8", "pls"})
                /\ ~\E pattern \in streaming_words : Contains(lower, pattern)
                /\ ~\E domain \in trusted_domains : Contains(lower, domain)
        THEN [safe |-> FALSE, reason |-> ReasonUnknown]
        ELSE [safe |-> TRUE, reason |-> ReasonSafe]

\* the urls the validator is called with: scheme, host, "/", file name and
\* what follows the path (a query, a fragment)
Schemes == {"http://", "https://", "ftp://"}

LocalHosts == {"localhost", "127.0.0.1", "0.0.0.0", "[::1]", "10.0.0.5", "172.16.0.1",
               "172.31.9.9", "192.168.1.1"}

PublicHosts == {"172.32.0.1", "stream.example.com", "files.example.org"}

ExecutableNames == {"setup.exe", "RUN.BAT"}

\* "" is the url without a path
OtherNames == {"live.mp3", "radio", "top10.mp3", ""}

Tails == {"", "?x=1", "#top"}

MakeUrl(scheme, host, file, tail) ==
    scheme \o host \o (IF file = "" THEN "" ELSE "/" \o file) \o tail

\* is_safe_url, tabulated once over these urls
SafeUrl ==
    [scheme \in Schemes |-> [host \in LocalHosts \cup PublicHosts |->
        [file \in ExecutableNames \cup OtherNames |-> [tail \in Tails |->
            is_safe_url(MakeUrl(scheme, host, file, tail))]]]]

NoCall == [scheme |-> "", host |-> "", file |-> "", tail |-> "", safe |-> FALSE, reason |-> ""]

ValidateCall(scheme, host, file, tail) ==
    /\ validate' = [scheme |-> scheme, host |-> host, file |-> file, tail |-> tail,
                    safe |-> SafeUrl[scheme][host][file][tail].safe,
                    reason |-> SafeUrl[scheme][host][file][tail].reason]
    /\ UNCHANGED <<guilds, RADIOS, current_radios, stream_cache, server_stations,
                   auto_leave_tasks, snapshot, now, vcs, play, stop, hist, members,
                   tasks, notified, emptied, resolve>>
    /\ UNCHANGED <<adds, remove, disk, config, boots>>

(***************************************************************************)
(* Station Registry.                                                       *)
(***************************************************************************)
\* a merged view that forgets the stations of the guild
GlobalStationsOnly(guild_id) == RADIOS

get_available_stations(guild_id) ==
    IF guild_id \in DOMAIN server_stations
    THEN [n \in DOMAIN RADIOS \cup DOMAIN server_stations[guild_id] |->
            IF n \in DOMAIN server_stations[guild_id]
            THEN server_stations[guild_id][n] ELSE RADIOS[n]]
    ELSE RADIOS

(***************************************************************************)
(* The session table: a dict keyed by guild id, held as its set of items.  *)
(***************************************************************************)
HasSession(cr, g) == \E e \in cr : e.guild = g

Session(cr, g) == CHOOSE e \in cr : e.guild = g

DelSession(cr, g) == {e \in cr : e.guild # g}

InstallSessionAppend(cr, g, name, vc, url, t) ==
    cr \cup {[guild |-> g, name |-> name, voice_client |-> vc, url |-> url, start_time |-> t]}

\* an install that keeps the Session the guild already has
InstallSessionFirstWins(cr, g, name, vc, url, t) ==
    IF HasSession(cr, g) THEN cr
    ELSE cr \cup {[guild |-> g, name |-> name, voice_client |-> vc, url |-> url,
                   start_time |-> t]}

\* current_radios[guild_id] = {...}
InstallSession(cr, g, name, vc, url, t) ==
    DelSession(cr, g)
        \cup {[guild |-> g, name |-> name, voice_client |-> vc, url |-> url, start_time |-> t]}

(***************************************************************************)
(* State Snapshotter.  json.dump writes the keys of a dict as strings:     *)
(* save_state turns a guild id into str(guild_id) and load_state turns it  *)
(* back with int().  A write that raises leaves STATE_FILE as it was (the  *)
(* open failed) or cut off (the dump failed); save_state logs it and       *)
(* returns.                                                                *)
(***************************************************************************)
Corrupt == [file |-> "cut off"]

str(guild_id) == ToString(guild_id)

int(key) == CHOOSE g \in AllGuilds : ToString(g) = key

save_state(cr, radios, stations) ==
    [current_radios |-> {[guild |-> str(e.guild), name |-> e.name, url |-> e.url,
                          start_time |-> e.start_time] : e \in cr},
     radios |-> radios,
     server_stations |-> [k \in {str(g) : g \in DOMAIN stations} |-> stations[int(k)]]]

\* a write that is skipped
WriteFileSkipped(state) == {snapshot}

\* what STATE_FILE may hold after json.dump(state, f) into open(STATE_FILE, "w")
WriteFile(state) == IF disk.writable THEN {state} ELSE {snapshot, Corrupt}

\* a call of save_state()
Saved(cr, radios, stations) ==
    /\ snapshot' \in WriteFile(save_state(cr, radios, stations))
    /\ disk' = [disk EXCEPT !.last = IF disk.writable THEN "ok" ELSE "failed"]

\* dict.update
DictUpdate(d, other) ==
    [k \in DOMAIN d \cup DOMAIN other |-> IF k \in DOMAIN other THEN other[k] ELSE d[k]]

\* a load_state whose failed read leaves the process without its stations
load_state_loses_config(file, radios, readable) ==
    IF file = NoFile
    THEN [RADIOS |-> radios, server_stations |-> <<>>, current_radios |-> {}]
    ELSE IF file = Corrupt \/ ~readable
    THEN [RADIOS |-> <<>>, server_stations |-> <<>>, current_radios |-> {}]
    ELSE [RADIOS |-> DictUpdate(radios, file.radios),
          server_stations |-> [g \in {int(k) : k \in DOMAIN file.server_stations} |->
                                  file.server_stations[str(g)]],
          current_radios |-> {}]

\* a load_state that takes the sessions of the file up again
load_state_resumes(file, radios, readable) ==
    IF file = NoFile \/ file = Corrupt \/ ~readable
    THEN [RADIOS |-> radios, server_stations |-> <<>>, current_radios |-> {}]
    ELSE [RADIOS |-> DictUpdate(radios, file.radios),
          server_stations |-> [g \in {int(k) : k \in DOMAIN file.server_stations} |->
                                  file.server_stations[str(g)]],
          current_radios |-> {[guild |-> int(e.guild), name |-> e.name, voice_client |-> 0,
                               url |-> e.url, start_time |-> e.start_time] :
                                  e \in file.current_radios}]

\* load_state() on RADIOS = radios, server_stations = {} and current_radios
\* = {}, as the import has set them: a missing file, a file that cannot be
\* read or parsed leave them as they are, and "current_radios" is not read
load_state(file, radios, readable) ==
    IF file = NoFile \/ file = Corrupt \/ ~readable
    THEN [RADIOS |-> radios, server_stations |-> <<>>, current_radios |-> {}]
    ELSE [RADIOS |-> DictUpdate(radios, file.radios),
          server_stations |-> [g \in {int(k) : k \in DOMAIN file.server_stations} |->
                                  file.server_stations[str(g)]],
          current_radios |-> {}]

(***************************************************************************)
(* The voice transport.                                                    *)
(***************************************************************************)
NoVc == [guild |-> 0, channel |-> NoChannel, registered |-> FALSE,
         connected |-> FALSE, playing |-> FALSE]

\* the voice clients of every guild
VoiceClientsOfAll(v, g) == {h \in DOMAIN v : v[h].registered}

\* interaction.client.voice_clients of one guild
VoiceClientsOf(v, g) == {h \in DOMAIN v : v[h].registered /\ v[h].guild = g}

\* vc.stop()
VcStop(v, hs) == [h \in DOMAIN v |-> IF h \in hs THEN [v[h] EXCEPT !.playing = FALSE] ELSE v[h]]

\* a vc.disconnect(force=True) that completed
VcDisconnect(v, hs) ==
    [h \in DOMAIN v |->
        IF h \in hs
        THEN [v[h] EXCEPT !.playing = FALSE, !.connected = FALSE, !.registered = FALSE]
        ELSE v[h]]

\* vc.disconnect(force=True) with its outcome: completed, or raised / timed out
VcDisconnectOutcome(v, hs, ok) == IF ok THEN VcDisconnect(v, hs) ELSE v

(***************************************************************************)
(* Invocations.  Each invocation runs once; invocation p of                *)
(* play_radio_static owns the voice client with handle p, the one its      *)
(* voice_channel.connect() creates.                                        *)
(***************************************************************************)
NewPlay == [pc |-> "new", guild |-> 0, station |-> "", channel |-> NoChannel,
            url |-> "", resolved |-> "", attempt |-> 0, result |-> "", fault |-> ""]

NewStop == [pc |-> "new", guild |-> 0, station_name |-> "", voice_client |-> 0, result |-> ""]

NewHist == [sessionAtCall |-> {}, stopIssued |-> FALSE]

PlayInFlight(p) == play[p].pc \notin {"new", "done"}

\* a returned invocation keeps its guild and its result only
PlayReturn(p, result) ==
    [play EXCEPT ![p] = [NewPlay EXCEPT !.pc = "done", !.guild = play[p].guild,
                                        !.result = result]]

StopReturn(s, pc, result) ==
    [stop EXCEPT ![s] = [NewStop EXCEPT !.pc = pc, !.guild = stop[s].guild,
                                        !.result = result]]

Started == Cardinality({p \in Plays : play[p].pc # "new"})
               + Cardinality({s \in Stops : stop[s].pc # "new"})
               + Cardinality({a \in Adds : adds[a].pc # "new"})

\* a connect loop that gives up after its second attempt
PlayRetryOnce(p) ==
    IF play[p].attempt < 1
    THEN [play EXCEPT ![p].attempt = @ + 1]
    ELSE PlayReturn(p, "ConnectionFailed")

\* the end of one failed connect attempt: `continue` while attempt < 2, else `raise`
PlayRetry(p) ==
    IF play[p].attempt < 2
    THEN [play EXCEPT ![p].attempt = @ + 1]
    ELSE PlayReturn(p, "ConnectionFailed")

\* play_radio_static with the stop of the current stream moved before its checks
PlayBeginStopsFirst(p, g, name, ch) ==
    /\ play[p].pc = "new"
    /\ \A q \in Plays : q < p => play[q].pc # "new"
    /\ Started < MaxCalls
    /\ g \in guilds
    /\ hist' = [hist EXCEPT ![p].sessionAtCall = {e \in current_radios : e.guild = g}]
    /\ LET available_stations == get_available_stations(g)
           called == [NewPlay EXCEPT !.guild = g, !.station = name, !.channel = ch]
       IN  IF name \notin DOMAIN available_stations
           THEN /\ play' = [play EXCEPT ![p] = [called EXCEPT !.pc = "done", !.result = "NotFound"]]
                /\ vcs' = IF HasSession(current_radios, g)
                          THEN VcStop(vcs, {Session(current_radios, g).voice_client})
                          ELSE vcs
           ELSE IF ch = NoChannel
           THEN /\ play' = [play EXCEPT ![p] = [called EXCEPT !.pc = "done", !.result = "NoVoiceChannel"]]
                /\ vcs' = IF HasSession(current_radios, g)
                          THEN VcStop(vcs, {Session(current_radios, g).voice_client})
                          ELSE vcs
           ELSE \E ok \in BOOLEAN :
                LET stopped == IF HasSession(current_radios, g)
                               THEN VcStop(vcs, {Session(current_radios, g).voice_client})
                               ELSE vcs
                    existing_vcs == {h \in VoiceClientsOf(stopped, g) : stopped[h].connected}
                IN  /\ vcs' = VcDisconnectOutcome(VcStop(stopped, existing_vcs), existing_vcs, ok)
                    /\ play' = [play EXCEPT ![p] =
                                  [called EXCEPT !.pc = "connect", !.station = name,
                                                 !.channel = ch, !.attempt = 0,
                                                 !.url = available_stations[name].url]]
    /\ UNCHANGED <<guilds, RADIOS, current_radios, stream_cache, server_stations,
                   auto_leave_tasks, snapshot, now, stop>>
    /\ UNCHANGED <<members, tasks, notified, emptied, resolve, validate>>
    /\ UNCHANGED <<adds, remove, disk, config, boots>>

(***************************************************************************)
(* play_radio_static, lines 338-388: the station and voice-channel checks, *)
(* the stop of the current stream and the cleanup of the guild's existing  *)
(* voice clients (its disconnect completes, ok, or raises).                *)
(***************************************************************************)
PlayBegin(p, g, name, ch) ==
    /\ play[p].pc = "new"
    /\ \A q \in Plays : q < p => play[q].pc # "new"
    /\ Started < MaxCalls
    /\ g \in guilds
    /\ hist' = [hist EXCEPT ![p].sessionAtCall = {e \in current_radios : e.guild = g}]
    /\ LET available_stations == get_available_stations(g)
           called == [NewPlay EXCEPT !.guild = g, !.station = name, !.channel = ch]
       IN  IF name \notin DOMAIN available_stations
           THEN /\ play' = [play EXCEPT ![p] = [called EXCEPT !.pc = "done", !.result = "NotFound"]]
                /\ vcs' = vcs
           ELSE IF ch = NoChannel
           THEN /\ play' = [play EXCEPT ![p] = [called EXCEPT !.pc = "done", !.result = "NoVoiceChannel"]]
                /\ vcs' = vcs
           ELSE \E ok \in BOOLEAN :
                LET stopped == IF HasSession(current_radios, g)
                               THEN VcStop(vcs, {Session(current_radios, g).voice_client})
                               ELSE vcs
                    existing_vcs == {h \in VoiceClientsOf(stopped, g) : stopped[h].connected}
                IN  /\ vcs' = VcDisconnectOutcome(VcStop(stopped, existing_vcs), existing_vcs, ok)
                    /\ play' = [play EXCEPT ![p] =
                                  [called EXCEPT !.pc = "connect", !.station = name,
                                                 !.channel = ch, !.attempt = 0,
                                                 !.url = available_stations[name].url]]
    /\ UNCHANGED <<guilds, RADIOS, current_radios, stream_cache, server_stations,
                   auto_leave_tasks, snapshot, now, stop>>
    /\ UNCHANGED <<members, tasks, notified, emptied, resolve, validate>>
    /\ UNCHANGED <<adds, remove, disk, config, boots>>

(***************************************************************************)
(* One attempt of the connect loop, lines 390-433, and on success lines    *)
(* 484-504 up to the fetch inside resolve_stream_url.                      *)
(*   - the guild still has a registered voice client: connect() raises     *)
(*     "Already connected"; the handler force-disconnects the guild's      *)
(*     voice clients (errors are swallowed) and retries;                   *)
(*   - "closed": ConnectionClosed, the client the transport created stays  *)
(*     registered though not connected;                                    *)
(*   - "timeout": asyncio.TimeoutError, nothing stays registered;          *)
(*   - "error": any other exception, re-raised without a retry (the fault  *)
(*     "other" of the returned invocation).                                *)
(* A fresh connection is in the caller's channel, so the move of lines     *)
(* 486-500 is never taken.                                                 *)
(***************************************************************************)
PlayConnect(p) ==
    /\ play[p].pc = "connect"
    /\ LET g == play[p].guild
           url == play[p].url
       IN  IF VoiceClientsOf(vcs, g) # {}
           THEN \E ok \in BOOLEAN :
                /\ vcs' = VcDisconnectOutcome(vcs, VoiceClientsOf(vcs, g), ok)
                /\ play' = PlayRetry(p)
                /\ stream_cache' = stream_cache
           ELSE \E outcome \in {"ok", "closed", "timeout", "error"} :
                CASE outcome = "ok" ->
                       /\ vcs' = [vcs EXCEPT ![p] = [guild |-> g, channel |-> play[p].channel,
                                                     registered |-> TRUE, connected |-> TRUE,
                                                     playing |-> FALSE]]
                       /\ stream_cache' = CacheAfterLookup(stream_cache, url, now)
                       /\ play' = IF CacheHit(stream_cache, url, now)
                                  THEN [play EXCEPT ![p].pc = "probe",
                                                    ![p].resolved = stream_cache[url].resolved_url]
                                  ELSE IF ~IsPlaylistUrl(url)
                                  THEN [play EXCEPT ![p].pc = "probe", ![p].resolved = url]
                                  ELSE [play EXCEPT ![p].pc = "fetch"]
                  [] outcome = "closed" ->
                       /\ vcs' = [vcs EXCEPT ![p] = [guild |-> g, channel |-> play[p].channel,
                                                     registered |-> TRUE, connected |-> FALSE,
                                                     playing |-> FALSE]]
                       /\ play' = PlayRetry(p)
                       /\ stream_cache' = stream_cache
                  [] outcome = "timeout" ->
                       /\ vcs' = vcs
                       /\ play' = PlayRetry(p)
                       /\ stream_cache' = stream_cache
                  [] outcome = "error" ->
                       /\ vcs' = vcs
                       /\ play' = [PlayReturn(p, "ConnectionFailed") EXCEPT ![p].fault = "other"]
                       /\ stream_cache' = stream_cache
    /\ UNCHANGED <<guilds, RADIOS, current_radios, server_stations, auto_leave_tasks,
                   snapshot, now, stop, hist>>
    /\ UNCHANGED <<members, tasks, notified, emptied, resolve, validate>>
    /\ UNCHANGED <<adds, remove, disk, config, boots>>

(***************************************************************************)
(* The playlist fetch of resolve_stream_url returns, lines 97-126, then    *)
(* lines 505-528 up to the HEAD request.                                   *)
(***************************************************************************)
PlayFetched(p) ==
    /\ play[p].pc = "fetch"
    /\ \E body \in Bodies \cup {FetchError} :
         LET r == ResolveFetched(stream_cache, play[p].url, body, now)
         IN  IF r.value = NoneVal
             THEN /\ play' = PlayReturn(p, "StreamUnavailable")
                  /\ stream_cache' = stream_cache
             ELSE /\ play' = [play EXCEPT ![p].pc = "probe", ![p].resolved = r.value]
                  /\ stream_cache' = r.cache
    /\ UNCHANGED <<guilds, RADIOS, current_radios, server_stations, auto_leave_tasks,
                   snapshot, now, vcs, stop, hist>>
    /\ UNCHANGED <<members, tasks, notified, emptied, resolve, validate>>
    /\ UNCHANGED <<adds, remove, disk, config, boots>>

(***************************************************************************)
(* The HEAD request returns, lines 529-613: the probe's verdict, the start *)
(* of the playback (voice_client.play raises when the client is not        *)
(* connected or already plays, the audio source may fail to build), the    *)
(* session record and save_state().                                        *)
(***************************************************************************)
PlayProbed(p) ==
    /\ play[p].pc = "probe"
    /\ \E probe_ok \in BOOLEAN, source_ok \in BOOLEAN :
         IF ~probe_ok
         THEN /\ play' = PlayReturn(p, "StreamUnavailable")
              /\ UNCHANGED <<vcs, current_radios, snapshot, disk>>
         ELSE IF ~source_ok \/ ~vcs[p].connected \/ vcs[p].playing
         THEN /\ play' = PlayReturn(p, "PlaybackError")
              /\ UNCHANGED <<vcs, current_radios, snapshot, disk>>
         ELSE /\ vcs' = [vcs EXCEPT ![p].playing = TRUE]
              /\ current_radios' = InstallSession(current_radios, play[p].guild,
                                                  play[p].station, p, play[p].resolved, now)
              /\ Saved(current_radios', RADIOS, server_stations)
              /\ play' = PlayReturn(p, "Ok")
    /\ UNCHANGED <<guilds, RADIOS, stream_cache, server_stations, auto_leave_tasks,
                   now, stop, hist>>
    /\ UNCHANGED <<members, tasks, notified, emptied, resolve, validate>>
    /\ UNCHANGED <<adds, remove, config, boots>>

\* StopBegin with a slip: a stop that finds no session still disconnects the
\* guild's voice clients
StopBeginCleansUp(s, g) ==
    /\ stop[s].pc = "new"
    /\ \A q \in Stops : q < s => stop[q].pc # "new"
    /\ Started < MaxCalls
    /\ g \in guilds
    /\ hist' = [p \in Plays |->
                  IF PlayInFlight(p) /\ play[p].guild = g
                  THEN [hist[p] EXCEPT !.stopIssued = TRUE] ELSE hist[p]]
    /\ IF ~HasSession(current_radios, g)
       THEN /\ stop' = [stop EXCEPT ![s] = [NewStop EXCEPT !.pc = "done", !.guild = g,
                                                           !.result = "NotPlaying"]]
            /\ vcs' = VcDisconnect(vcs, VoiceClientsOf(vcs, g))
       ELSE /\ stop' = [stop EXCEPT ![s] =
                          [pc |-> "disconnect", guild |-> g,
                           station_name |-> Session(current_radios, g).name,
                           voice_client |-> Session(current_radios, g).voice_client,
                           result |-> ""]]
            /\ vcs' = VcStop(vcs, {Session(current_radios, g).voice_client})
    /\ UNCHANGED <<guilds, RADIOS, current_radios, stream_cache, server_stations,
                   auto_leave_tasks, snapshot, now, play>>
    /\ UNCHANGED <<members, tasks, notified, emptied, resolve, validate>>
    /\ UNCHANGED <<adds, remove, disk, config, boots>>

(***************************************************************************)
(* stop_radio_static, lines 650-670: NotPlaying, or the stop of the        *)
(* playback and the call of disconnect.                                    *)
(***************************************************************************)
StopBegin(s, g) ==
    /\ stop[s].pc = "new"
    /\ \A q \in Stops : q < s => stop[q].pc # "new"
    /\ Started < MaxCalls
    /\ g \in guilds
    /\ hist' = [p \in Plays |->
                  IF PlayInFlight(p) /\ play[p].guild = g
                  THEN [hist[p] EXCEPT !.stopIssued = TRUE] ELSE hist[p]]
    /\ IF ~HasSession(current_radios, g)
       THEN /\ stop' = [stop EXCEPT ![s] = [NewStop EXCEPT !.pc = "done", !.guild = g,
                                                           !.result = "NotPlaying"]]
            /\ vcs' = vcs
       ELSE /\ stop' = [stop EXCEPT ![s] =
                          [pc |-> "disconnect", guild |-> g,
                           station_name |-> Session(current_radios, g).name,
                           voice_client |-> Session(current_radios, g).voice_client,
                           result |-> ""]]
            /\ vcs' = VcStop(vcs, {Session(current_radios, g).voice_client})
    /\ UNCHANGED <<guilds, RADIOS, current_radios, stream_cache, server_stations,
                   auto_leave_tasks, snapshot, now, play>>
    /\ UNCHANGED <<members, tasks, notified, emptied, resolve, validate>>
    /\ UNCHANGED <<adds, remove, disk, config, boots>>

(***************************************************************************)
(* stop_radio_static, lines 670-678: the bounded wait for the disconnect   *)
(* ends (completed, timed out or raised: the latter two are only logged),  *)
(* then `del current_radios[guild_id]`, which raises KeyError when the     *)
(* entry is gone, and save_state().                                        *)
(***************************************************************************)
StopDisconnected(s) ==
    /\ stop[s].pc = "disconnect"
    /\ \E outcome \in {"ok", "timeout", "error"} :
         vcs' = VcDisconnectOutcome(vcs, {stop[s].voice_client}, outcome = "ok")
    /\ IF HasSession(current_radios, stop[s].guild)
       THEN /\ current_radios' = DelSession(current_radios, stop[s].guild)
            /\ Saved(current_radios', RADIOS, server_stations)
            /\ stop' = StopReturn(s, "done", "Stopped")
       ELSE /\ stop' = StopReturn(s, "raised", "KeyError")
            /\ UNCHANGED <<current_radios, snapshot, disk>>
    /\ UNCHANGED <<guilds, RADIOS, stream_cache, server_stations, auto_leave_tasks,
                   now, play, hist>>
    /\ UNCHANGED <<members, tasks, notified, emptied, resolve, validate>>
    /\ UNCHANGED <<adds, remove, config, boots>>

(***************************************************************************)
(* Idle Monitor.  auto_leave_tasks maps a guild to the task that runs      *)
(* check_voice_channel_empty for it; a task is created by                  *)
(* on_voice_state_update, which runs without an await, and is suspended at *)
(* its sleep, at voice_client.disconnect(), at change_presence() and at    *)
(* text_channel.send().                                                    *)
(***************************************************************************)
NewTask == [pc |-> "new", guild |-> 0, voice_client |-> 0]

\* the voice channels of guild 2
OtherChannels == {"d1"}

\* before.channel.guild.id: the channels c1 and c2 are channels of guild 1
GuildOfChannel == [ch \in Channels \cup OtherChannels |-> IF ch \in Channels THEN 1 ELSE 2]

\* guild_id in auto_leave_tasks
HasTimer(alt, g) == \E e \in alt : e.guild = g

\* del auto_leave_tasks[guild_id]
DelTimer(alt, g) == {e \in alt : e.guild # g}

\* a member list that names nobody
MembersInNobody(mem, ch) == {}

\* [m for m in channel.members if not m.bot]
MembersIn(mem, ch) == {m \in Members : mem[m] = ch}

\* self.bot.user in before.channel.members
BotIn(v, ch) ==
    \E h \in DOMAIN v : v[h].connected /\ v[h].channel = ch /\ v[h].guild = GuildOfChannel[ch]

\* a task that has not finished: task.cancel() ends it at the await it is at
TaskAlive(t) == tasks[t].pc \in {"sleep", "disconnect", "presence", "send"}

\* the tasks of a guild that still sleep through the grace period
PendingTimers(g) == {t \in Timers : tasks[t].pc = "sleep" /\ tasks[t].guild = g}

\* one more member-left event found the session of voice client h alone
FoundEmpty(h) == [emptied EXCEPT ![h] = IF @ < 2 THEN @ + 1 ELSE @]

TaskEnd(t, pc) == [tasks EXCEPT ![t] = [NewTask EXCEPT !.pc = pc, !.guild = tasks[t].guild]]

\* on_voice_state_update without the test `guild_id not in auto_leave_tasks`
VoiceStateUpdateStacks(m, to) ==
    /\ members' = [members EXCEPT ![m] = to]
    /\ LET before == members[m]
           g == GuildOfChannel[before]
       IN  IF /\ before # NoChannel
              /\ BotIn(vcs, before)
              /\ HasSession(current_radios, g)
              /\ vcs[Session(current_radios, g).voice_client].channel = before
           THEN LET voice_client == Session(current_radios, g).voice_client
                    members_in_channel == MembersIn(members', before)
                IN  IF members_in_channel = {}
                    THEN \E t \in Timers :
                           /\ tasks[t].pc = "new"
                           /\ \A q \in Timers : q < t => tasks[q].pc # "new"
                           /\ tasks' = [tasks EXCEPT ![t] =
                                          [NewTask EXCEPT !.pc = "sleep", !.guild = g]]
                           /\ auto_leave_tasks' = DelTimer(auto_leave_tasks, g)
                                                      \cup {[guild |-> g, task |-> t]}
                           /\ emptied' = FoundEmpty(voice_client)
                           /\ vcs' = vcs
                    ELSE IF members_in_channel # {} /\ HasTimer(auto_leave_tasks, g)
                    THEN \E t \in Timers, ok \in BOOLEAN :
                           /\ [guild |-> g, task |-> t] \in auto_leave_tasks
                           /\ (tasks[t].pc # "disconnect" => ok)
                           /\ tasks' = IF TaskAlive(t) THEN TaskEnd(t, "cancelled") ELSE tasks
                           /\ vcs' = IF tasks[t].pc = "disconnect"
                                     THEN VcDisconnectOutcome(vcs, {tasks[t].voice_client}, ok)
                                     ELSE vcs
                           /\ auto_leave_tasks' = DelTimer(auto_leave_tasks, g)
                           /\ emptied' = emptied
                    ELSE /\ emptied' = IF members_in_channel = {}
                                       THEN FoundEmpty(voice_client) ELSE emptied
                         /\ UNCHANGED <<tasks, auto_leave_tasks, vcs>>
           ELSE UNCHANGED <<tasks, auto_leave_tasks, emptied, vcs>>
    /\ UNCHANGED <<guilds, RADIOS, current_radios, stream_cache, server_stations,
                   snapshot, now, play, stop, hist, notified, resolve, validate>>
    /\ UNCHANGED <<adds, remove, disk, config, boots>>

(***************************************************************************)
(* on_voice_state_update, lines 1020-1042, for the non-bot member m whose  *)
(* voice state changed from the channel `before` to the channel `to` (a    *)
(* join, a leave, a move, or with to = before a mute or the like).  The    *)
(* member lists the handler reads are those after the change.  Cancelling  *)
(* a task that waits for its disconnect leaves the disconnect completed or *)
(* not.                                                                    *)
(***************************************************************************)
VoiceStateUpdate(m, to) ==
    /\ members' = [members EXCEPT ![m] = to]
    /\ LET before == members[m]
           g == GuildOfChannel[before]
       IN  IF /\ before # NoChannel
              /\ BotIn(vcs, before)
              /\ HasSession(current_radios, g)
              /\ vcs[Session(current_radios, g).voice_client].channel = before
           THEN LET voice_client == Session(current_radios, g).voice_client
                    members_in_channel == MembersIn(members', before)
                IN  IF members_in_channel = {} /\ ~HasTimer(auto_leave_tasks, g)
                    THEN \E t \in Timers :
                           /\ tasks[t].pc = "new"
                           /\ \A q \in Timers : q < t => tasks[q].pc # "new"
                           /\ tasks' = [tasks EXCEPT ![t] =
                                          [NewTask EXCEPT !.pc = "sleep", !.guild = g]]
                           /\ auto_leave_tasks' = DelTimer(auto_leave_tasks, g)
                                                      \cup {[guild |-> g, task |-> t]}
                           /\ emptied' = FoundEmpty(voice_client)
                           /\ vcs' = vcs
                    ELSE IF members_in_channel # {} /\ HasTimer(auto_leave_tasks, g)
                    THEN \E t \in Timers, ok \in BOOLEAN :
                           /\ [guild |-> g, task |-> t] \in auto_leave_tasks
                           /\ (tasks[t].pc # "disconnect" => ok)
                           /\ tasks' = IF TaskAlive(t) THEN TaskEnd(t, "cancelled") ELSE tasks
                           /\ vcs' = IF tasks[t].pc = "disconnect"
                                     THEN VcDisconnectOutcome(vcs, {tasks[t].voice_client}, ok)
                                     ELSE vcs
                           /\ auto_leave_tasks' = DelTimer(auto_leave_tasks, g)
                           /\ emptied' = emptied
                    ELSE /\ emptied' = IF members_in_channel = {}
                                       THEN FoundEmpty(voice_client) ELSE emptied
                         /\ UNCHANGED <<tasks, auto_leave_tasks, vcs>>
           ELSE UNCHANGED <<tasks, auto_leave_tasks, emptied, vcs>>
    /\ UNCHANGED <<guilds, RADIOS, current_radios, stream_cache, server_stations,
                   snapshot, now, play, stop, hist, notified, resolve, validate>>
    /\ UNCHANGED <<adds, remove, disk, config, boots>>

(***************************************************************************)
(* check_voice_channel_empty, lines 949-969: the sleep of the grace period *)
(* is over.  The two early returns leave the entry of auto_leave_tasks in  *)
(* place; a channel with a member in it skips to the cleanup of lines      *)
(* 1014-1015; an empty one stops the playback and calls disconnect().      *)
(***************************************************************************)
TimerFire(t) ==
    /\ tasks[t].pc = "sleep"
    /\ LET guild_id == tasks[t].guild
       IN  IF ~HasSession(current_radios, guild_id)
           THEN /\ tasks' = TaskEnd(t, "done")
                /\ UNCHANGED <<auto_leave_tasks, vcs>>
           ELSE LET voice_client == Session(current_radios, guild_id).voice_client
                IN  IF ~vcs[voice_client].connected
                    THEN /\ tasks' = TaskEnd(t, "done")
                         /\ UNCHANGED <<auto_leave_tasks, vcs>>
                    ELSE IF MembersIn(members, vcs[voice_client].channel) # {}
                    THEN /\ tasks' = TaskEnd(t, "done")
                         /\ auto_leave_tasks' = DelTimer(auto_leave_tasks, guild_id)
                         /\ vcs' = vcs
                    ELSE /\ tasks' = [tasks EXCEPT ![t].pc = "disconnect",
                                                   ![t].voice_client = voice_client]
                         /\ vcs' = VcStop(vcs, {voice_client})
                         /\ auto_leave_tasks' = auto_leave_tasks
    /\ UNCHANGED <<guilds, RADIOS, current_radios, stream_cache, server_stations,
                   snapshot, now, play, stop, hist, members, notified, emptied,
                   resolve, validate>>
    /\ UNCHANGED <<adds, remove, disk, config, boots>>

(***************************************************************************)
(* check_voice_channel_empty, lines 969-980: disconnect() returned or      *)
(* raised (no handler: the task ends with the exception), then             *)
(* `del current_radios[guild_id]`, which raises KeyError when the entry is *)
(* gone, save_state() and the call of change_presence().                   *)
(***************************************************************************)
TimerDisconnected(t) ==
    /\ tasks[t].pc = "disconnect"
    /\ \E ok \in BOOLEAN :
         /\ vcs' = VcDisconnectOutcome(vcs, {tasks[t].voice_client}, ok)
         /\ IF ok /\ HasSession(current_radios, tasks[t].guild)
            THEN /\ current_radios' = DelSession(current_radios, tasks[t].guild)
                 /\ Saved(current_radios', RADIOS, server_stations)
                 /\ tasks' = [tasks EXCEPT ![t].pc = "presence", ![t].voice_client = 0]
            ELSE /\ tasks' = TaskEnd(t, "raised")
                 /\ UNCHANGED <<current_radios, snapshot, disk>>
    /\ UNCHANGED <<guilds, RADIOS, stream_cache, server_stations, auto_leave_tasks,
                   now, play, stop, hist, members, notified, emptied, resolve, validate>>
    /\ UNCHANGED <<adds, remove, config, boots>>

(***************************************************************************)
(* check_voice_channel_empty, lines 980-1006: change_presence() returned;  *)
(* the message is sent to a text channel of the guild.                     *)
(***************************************************************************)
TimerPresence(t) ==
    /\ tasks[t].pc = "presence"
    /\ tasks' = [tasks EXCEPT ![t].pc = "send"]
    /\ notified' = notified \cup {tasks[t].guild}
    /\ UNCHANGED <<guilds, RADIOS, current_radios, stream_cache, server_stations,
                   auto_leave_tasks, snapshot, now, vcs, play, stop, hist, members,
                   emptied, resolve, validate>>
    /\ UNCHANGED <<adds, remove, disk, config, boots>>

(***************************************************************************)
(* check_voice_channel_empty, lines 1006-1015: send() returned, the entry  *)
(* of the guild is removed from auto_leave_tasks.                          *)
(***************************************************************************)
TimerSent(t) ==
    /\ tasks[t].pc = "send"
    /\ tasks' = TaskEnd(t, "done")
    /\ auto_leave_tasks' = DelTimer(auto_leave_tasks, tasks[t].guild)
    /\ UNCHANGED <<guilds, RADIOS, current_radios, stream_cache, server_stations,
                   snapshot, now, vcs, play, stop, hist, members, notified, emptied,
                   resolve, validate>>
    /\ UNCHANGED <<adds, remove, disk, config, boots>>

(***************************************************************************)
(* Station Registry, the station commands.  station_add, lines 779-853:    *)
(* the permission, the safety of the url and the name are checked in one   *)
(* segment; the handler is then suspended while the "Testing Station"      *)
(* message is sent and while resolve_stream_url fetches a playlist.  Both  *)
(* commands end with the await that sends their answer: an invocation is   *)
(* at "answer" with its arguments and its result until that await returns. *)
(***************************************************************************)
NewAdd == [pc |-> "new", guild |-> 0, caller |-> "", name |-> "", url |-> "",
           body |-> NoBody, result |-> ""]

NoRemove == [guild |-> 0, caller |-> "", name |-> "", result |-> ""]

\* interaction.user.guild_permissions.administrator
IsAdministrator(caller) == caller = "admin"

\* is_safe_url, tabulated once over the urls of station_add
SafeAddUrl == [url \in AddUrls |-> is_safe_url(url).safe]

StationsOf(stations, g) == IF g \in DOMAIN stations THEN stations[g] ELSE <<>>

\* lines 834-841: server_stations[guild_id][name] = {...}
StoreStation(stations, g, name, url, caller, t) ==
    [gg \in DOMAIN stations \cup {g} |->
        IF gg = g
        THEN [n \in DOMAIN StationsOf(stations, g) \cup {name} |->
                IF n = name THEN [url |-> url, added_by |-> caller, added_at |-> t]
                ELSE stations[g][n]]
        ELSE stations[gg]]

\* lines 899-903: del server_stations[guild_id][name], and the guild's dict
\* with it when it is empty
DeleteStation(stations, g, name) ==
    IF DOMAIN stations[g] = {name}
    THEN [gg \in DOMAIN stations \ {g} |-> stations[gg]]
    ELSE [stations EXCEPT ![g] = [n \in DOMAIN stations[g] \ {name} |-> stations[g][n]]]

AddReturn(a, pc, result) == [adds EXCEPT ![a].pc = pc, ![a].result = result]

\* lines 834-842 and the answer: the station is stored and save_state() called
AddStore(a) ==
    /\ server_stations' = StoreStation(server_stations, adds[a].guild, adds[a].name,
                                       adds[a].url, adds[a].caller, now)
    /\ Saved(current_radios, RADIOS, server_stations')

\* lines 779-821
AddBegin(a, g, caller, name, url) ==
    /\ adds[a].pc = "new"
    /\ \A q \in Adds : q < a => adds[q].pc # "new"
    /\ Started < MaxCalls
    /\ g \in guilds
    /\ LET called == [NewAdd EXCEPT !.guild = g, !.caller = caller, !.name = name,
                                    !.url = url]
       IN  adds' = [adds EXCEPT ![a] =
                      IF ~IsAdministrator(caller)
                      THEN [called EXCEPT !.pc = "answer", !.result = "PermissionDenied"]
                      ELSE IF ~SafeAddUrl[url]
                      THEN [called EXCEPT !.pc = "answer", !.result = "Unsafe"]
                      ELSE IF name \in DOMAIN get_available_stations(g)
                      THEN [called EXCEPT !.pc = "answer", !.result = "Conflict"]
                      ELSE [called EXCEPT !.pc = "send"]]
    /\ UNCHANGED <<guilds, RADIOS, current_radios, stream_cache, server_stations,
                   auto_leave_tasks, snapshot, now, vcs, play, stop, hist, members,
                   tasks, notified, emptied, resolve, validate, remove, disk, config,
                   boots>>

\* lines 822-842: the message was sent, or the send raised and ends the
\* handler; resolve_stream_url runs up to its fetch (lines 83-97)
AddSent(a) ==
    /\ adds[a].pc = "send"
    /\ \E sent \in BOOLEAN :
         IF ~sent
         THEN /\ adds' = [adds EXCEPT ![a] = [NewAdd EXCEPT !.pc = "raised"]]
              /\ UNCHANGED <<stream_cache, server_stations, snapshot, disk>>
         ELSE IF CacheHit(stream_cache, adds[a].url, now) \/ ~IsPlaylistUrl(adds[a].url)
         THEN /\ stream_cache' = CacheAfterLookup(stream_cache, adds[a].url, now)
              /\ AddStore(a)
              /\ adds' = AddReturn(a, "answer", "Ok")
         ELSE /\ stream_cache' = CacheAfterLookup(stream_cache, adds[a].url, now)
              /\ adds' = [adds EXCEPT ![a].pc = "fetch"]
              /\ UNCHANGED <<server_stations, snapshot, disk>>
    /\ UNCHANGED <<guilds, RADIOS, current_radios, auto_leave_tasks, now, vcs, play,
                   stop, hist, members, tasks, notified, emptied, resolve, validate,
                   remove, config, boots>>

\* lines 823-842: the fetch of the playlist returned a body or raised
AddFetched(a) ==
    /\ adds[a].pc = "fetch"
    /\ \E body \in Bodies \cup {FetchError} :
         LET r == ResolveFetched(stream_cache, adds[a].url, body, now)
         IN  IF r.value = NoneVal
             THEN /\ adds' = [AddReturn(a, "answer", "InvalidStream") EXCEPT ![a].body = body]
                  /\ UNCHANGED <<stream_cache, server_stations, snapshot, disk>>
             ELSE /\ stream_cache' = r.cache
                  /\ AddStore(a)
                  /\ adds' = [AddReturn(a, "answer", "Ok") EXCEPT ![a].body = body]
    /\ UNCHANGED <<guilds, RADIOS, current_radios, auto_leave_tasks, now, vcs, play,
                   stop, hist, members, tasks, notified, emptied, resolve, validate,
                   remove, config, boots>>

\* a test of the use of a station that never finds it in use
StationNeverInUse(cr, g, name) == FALSE

\* line 892: guild_id in current_radios and current_radios[guild_id]["name"] == name
StationInUse(cr, g, name) == HasSession(cr, g) /\ Session(cr, g).name = name

\* the answer of station_add was sent: the handler returns
AddAnswered(a) ==
    /\ adds[a].pc = "answer"
    /\ adds' = [adds EXCEPT ![a] = [NewAdd EXCEPT !.pc = "done"]]
    /\ UNCHANGED <<guilds, RADIOS, current_radios, stream_cache, server_stations,
                   auto_leave_tasks, snapshot, now, vcs, play, stop, hist, members,
                   tasks, notified, emptied, resolve, validate, remove, disk, config,
                   boots>>

\* station_remove, lines 858-905: no await before the station is removed
RemoveStation(g, caller, name) ==
    /\ g \in guilds
    /\ remove = NoRemove
    /\ LET called == [NoRemove EXCEPT !.guild = g, !.caller = caller, !.name = name]
       IN  IF ~IsAdministrator(caller)
           THEN /\ remove' = [called EXCEPT !.result = "PermissionDenied"]
                /\ UNCHANGED <<server_stations, snapshot, disk>>
           ELSE IF g \notin DOMAIN server_stations \/ name \notin DOMAIN server_stations[g]
           THEN /\ remove' = [called EXCEPT !.result =
                                 IF name \in DOMAIN RADIOS THEN "IsGlobal" ELSE "NotFound"]
                /\ UNCHANGED <<server_stations, snapshot, disk>>
           ELSE IF StationInUse(current_radios, g, name)
           THEN /\ remove' = [called EXCEPT !.result = "InUse"]
                /\ UNCHANGED <<server_stations, snapshot, disk>>
           ELSE /\ server_stations' = DeleteStation(server_stations, g, name)
                /\ Saved(current_radios, RADIOS, server_stations')
                /\ remove' = [called EXCEPT !.result = "Ok"]
    /\ UNCHANGED <<guilds, RADIOS, current_radios, stream_cache, auto_leave_tasks, now,
                   vcs, play, stop, hist, members, tasks, notified, emptied, resolve,
                   validate, adds, config, boots>>

\* the answer of station_remove was sent: the handler returns
RemoveAnswered ==
    /\ remove # NoRemove
    /\ remove' = NoRemove
    /\ UNCHANGED <<guilds, RADIOS, current_radios, stream_cache, server_stations,
                   auto_leave_tasks, snapshot, now, vcs, play, stop, hist, members,
                   tasks, notified, emptied, resolve, validate, adds, disk, config,
                   boots>>

(***************************************************************************)
\* show_info_static, lines 697-699: a read of the session table
show_info_static(g) == IF HasSession(current_radios, g) THEN "Playing" ELSE "NotPlaying"

(***************************************************************************)
(* The process and its files.  The process ends and is started again: the  *)
(* module is imported with the radios of config.yaml as it is then (lines  *)
(* 20-26) and load_state() reads STATE_FILE (line 75).  Nothing of the     *)
(* ended process remains but the file, which can be written again; the     *)
(* invocations the ended process had begun are over.                       *)
(***************************************************************************)
NewDisk == [writable |-> TRUE, last |-> "none", read |-> "none"]

\* how load_state() ends: without a file ("starting fresh"), with the state
\* of the file, or in its handler of Exception
ReadOutcome(file, readable) ==
    IF file = NoFile THEN "none"
    ELSE IF file = Corrupt \/ ~readable THEN "failed"
    ELSE "ok"

Restart(c, readable) ==
    /\ boots < MaxRestarts
    /\ boots' = boots + 1
    /\ config' = c
    /\ LET loaded == load_state(snapshot, c, readable)
       IN  /\ RADIOS' = loaded.RADIOS
           /\ server_stations' = loaded.server_stations
           /\ current_radios' = loaded.current_radios
    /\ stream_cache' = <<>>
    /\ auto_leave_tasks' = {}
    /\ vcs' = [h \in Plays |-> NoVc]
    /\ play' = [p \in Plays |-> IF play[p].pc = "new" THEN NewPlay
                                 ELSE [NewPlay EXCEPT !.pc = "done"]]
    /\ stop' = [s \in Stops |-> IF stop[s].pc = "new" THEN NewStop
                                 ELSE [NewStop EXCEPT !.pc = "done"]]
    /\ hist' = [p \in Plays |-> NewHist]
    /\ tasks' = [t \in Timers |-> IF tasks[t].pc = "new" THEN NewTask
                                  ELSE [NewTask EXCEPT !.pc = "done"]]
    /\ emptied' = [p \in Plays |-> 0]
    /\ adds' = [a \in Adds |-> IF adds[a].pc = "new" THEN NewAdd
                                ELSE [NewAdd EXCEPT !.pc = "done"]]
    /\ remove' = NoRemove
    /\ disk' = [NewDisk EXCEPT !.read = ReadOutcome(snapshot, readable)]
    /\ UNCHANGED <<guilds, snapshot, now, members, notified, resolve, validate>>

\* STATE_FILE stops being writable
DiskFault ==
    /\ disk.writable
    /\ disk' = [disk EXCEPT !.writable = FALSE]
    /\ UNCHANGED <<guilds, RADIOS, current_radios, stream_cache, server_stations,
                   auto_leave_tasks, snapshot, now, vcs, play, stop, hist, members,
                   tasks, notified, emptied, resolve, validate, adds, remove, config,
                   boots>>

(***************************************************************************)
(* The specification of the session manager.                               *)
(***************************************************************************)
Init ==
    /\ guilds = {1}
    /\ RADIOS = ConfigRadios
    /\ current_radios = {}
    /\ stream_cache = <<>>
    /\ server_stations = <<>>
    /\ auto_leave_tasks = {}
    /\ snapshot = NoFile
    /\ now = 0
    /\ vcs = [h \in Plays |-> NoVc]
    /\ play = [p \in Plays |-> NewPlay]
    /\ stop = [s \in Stops |-> NewStop]
    /\ hist = [p \in Plays |-> NewHist]
    /\ members \in [Members -> Channels \cup {NoChannel}]
    /\ tasks = [t \in Timers |-> NewTask]
    /\ notified = {}
    /\ emptied = [p \in Plays |-> 0]
    /\ resolve = [r \in Resolvers |-> NewResolve]
    /\ validate = NoCall
    /\ adds = [a \in Adds |-> NewAdd]
    /\ remove = NoRemove
    /\ disk = NewDisk
    /\ config = ConfigRadios
    /\ boots = 0

\* interaction.user.voice.channel of the callers of a command
CallerChannels == {members[m] : m \in Members}

Next ==
    \/ \E p \in Plays, g \in AllGuilds, name \in StationNames, ch \in CallerChannels :
         PlayBegin(p, g, name, ch)
    \/ \E p \in Plays : PlayConnect(p)
    \/ \E p \in Plays : PlayFetched(p)
    \/ \E p \in Plays : PlayProbed(p)
    \/ \E s \in Stops, g \in AllGuilds : StopBegin(s, g)
    \/ \E s \in Stops : StopDisconnected(s)

Spec == Init /\ [][Next]_vars

(***************************************************************************)
(* The same handlers called one after the other: an invocation begins only *)
(* when no other one is suspended at an await.                             *)
(***************************************************************************)
Quiet ==
    /\ \A p \in Plays : ~PlayInFlight(p)
    /\ \A s \in Stops : stop[s].pc # "disconnect"

NextSerial ==
    \/ /\ Quiet
       /\ \E p \in Plays, g \in AllGuilds, name \in StationNames,
             ch \in CallerChannels : PlayBegin(p, g, name, ch)
    \/ \E p \in Plays : PlayConnect(p)
    \/ \E p \in Plays : PlayFetched(p)
    \/ \E p \in Plays : PlayProbed(p)
    \/ /\ Quiet
       /\ \E s \in Stops, g \in AllGuilds : StopBegin(s, g)
    \/ \E s \in Stops : StopDisconnected(s)

SpecSerial == Init /\ [][NextSerial]_vars

(***************************************************************************)
(* The session manager, its commands called one after the other, together  *)
(* with the idle monitor and the membership events of the voice channels.  *)
(* The monitor reads only the voice client of a session: the plays of      *)
(* these runs name the stations whose url is no playlist, which            *)
(* resolve_stream_url returns without a fetch.                             *)
(***************************************************************************)
DirectStations == {n \in DOMAIN ConfigRadios : ConfigRadios[n].url \notin PlaylistUrls}

NextMonitor ==
    \/ /\ Quiet
       /\ \E p \in Plays, g \in AllGuilds, name \in DirectStations,
             ch \in CallerChannels : PlayBegin(p, g, name, ch)
    \/ \E p \in Plays : PlayConnect(p)
    \/ \E p \in Plays : PlayProbed(p)
    \/ /\ Quiet
       /\ \E s \in Stops, g \in AllGuilds : StopBegin(s, g)
    \/ \E s \in Stops : StopDisconnected(s)
    \/ \E m \in Members, to \in Channels \cup {NoChannel} :
         (members[m] # NoChannel \/ to # NoChannel) /\ VoiceStateUpdate(m, to)
    \/ \E t \in Timers : TimerFire(t)
    \/ \E t \in Timers : TimerDisconnected(t)
    \/ \E t \in Timers : TimerPresence(t)
    \/ \E t \in Timers : TimerSent(t)

SpecMonitor == Init /\ [][NextMonitor]_vars

(***************************************************************************)
(* The URL resolver called on its own while the clock advances; nobody is  *)
(* in a voice channel.                                                     *)
(***************************************************************************)
InitAlone == Init /\ members = [m \in Members |-> NoChannel]

NextResolve ==
    \/ \E r \in Resolvers, url \in Urls : ResolveCall(r, url)
    \/ \E r \in Resolvers : ResolveReturn(r)
    \/ \E t \in Times : Tick(t)

SpecResolve == InitAlone /\ [][NextResolve]_vars

(***************************************************************************)
(* The safety validator called on its own.                                 *)
(***************************************************************************)
NextValidate ==
    \E scheme \in Schemes, host \in LocalHosts \cup PublicHosts,
       file \in ExecutableNames \cup OtherNames, tail \in Tails :
        ValidateCall(scheme, host, file, tail)

SpecValidate == InitAlone /\ [][NextValidate]_vars

(***************************************************************************)
(* The station commands together with play and stop, called one after the  *)
(* other in both guilds, while STATE_FILE may stop being writable and the  *)
(* process may be started again, with config.yaml as it was or edited.     *)
(* Everybody is in the voice channel c1, and one run has one play.         *)
(***************************************************************************)
InitRegistry ==
    /\ guilds = AllGuilds
    /\ RADIOS = ConfigRadios
    /\ current_radios = {}
    /\ stream_cache = <<>>
    /\ server_stations = <<>>
    /\ auto_leave_tasks = {}
    /\ snapshot = NoFile
    /\ now = 0
    /\ vcs = [h \in Plays |-> NoVc]
    /\ play = [p \in Plays |-> NewPlay]
    /\ stop = [s \in Stops |-> NewStop]
    /\ hist = [p \in Plays |-> NewHist]
    /\ members = [m \in Members |-> "c1"]
    /\ tasks = [t \in Timers |-> NewTask]
    /\ notified = {}
    /\ emptied = [p \in Plays |-> 0]
    /\ resolve = [r \in Resolvers |-> NewResolve]
    /\ validate = NoCall
    /\ adds = [a \in Adds |-> NewAdd]
    /\ remove = NoRemove
    /\ disk = NewDisk
    /\ config = ConfigRadios
    /\ boots = 0

QuietRegistry ==
    /\ Quiet
    /\ \A a \in Adds : adds[a].pc \in {"new", "done", "raised"}
    /\ remove = NoRemove

\* the names the commands of these runs are called with: a global station
\* and a name that is free when the first process starts
RegistryNames == {"A", "X"}

NextRegistry ==
    \/ /\ QuietRegistry
       /\ \E p \in {1}, name \in RegistryNames, ch \in CallerChannels :
             PlayBegin(p, GuildOfChannel[ch], name, ch)
    \/ \E p \in Plays : PlayConnect(p)
    \/ \E p \in Plays : PlayFetched(p)
    \/ \E p \in Plays : PlayProbed(p)
    \/ /\ QuietRegistry
       /\ \E s \in Stops, ch \in CallerChannels : StopBegin(s, GuildOfChannel[ch])
    \/ \E s \in Stops : StopDisconnected(s)
    \/ /\ QuietRegistry
       /\ \E a \in Adds, g \in AllGuilds, caller \in Callers, name \in RegistryNames,
             url \in AddUrls : AddBegin(a, g, caller, name, url)
    \/ \E a \in Adds : AddSent(a)
    \/ \E a \in Adds : AddFetched(a)
    \/ \E a \in Adds : AddAnswered(a)
    \/ RemoveAnswered
    \/ /\ QuietRegistry
       /\ \E g \in AllGuilds, caller \in Callers, name \in RegistryNames :
             RemoveStation(g, caller, name)
    \/ \E c \in Configs, readable \in BOOLEAN : Restart(c, readable)
    \/ DiskFault

SpecRegistry == InitRegistry /\ [][NextRegistry]_vars

(***************************************************************************)
(* The station commands and play of guild 1 as the event loop runs them:   *)
(* a handler that is suspended at an await leaves the loop to the others,  *)
(* so the invocations overlap.                                             *)
(***************************************************************************)
NextStations ==
    \/ \E p \in Plays, name \in RegistryNames, ch \in CallerChannels :
         PlayBegin(p, GuildOfChannel[ch], name, ch)
    \/ \E p \in Plays : PlayConnect(p)
    \/ \E p \in Plays : PlayFetched(p)
    \/ \E p \in Plays : PlayProbed(p)
    \/ \E a \in Adds, url \in {UrlDirect, UrlM3u} : AddBegin(a, 1, "admin", "X", url)
    \/ \E a \in Adds : AddSent(a)
    \/ \E a \in Adds : AddFetched(a)
    \/ \E a \in Adds : AddAnswered(a)
    \/ RemoveStation(1, "admin", "X")
    \/ RemoveAnswered

SpecStations == InitRegistry /\ [][NextStations]_vars

(***************************************************************************)
(* The process as bot.py assembles it.  main() awaits setup(), which adds  *)
(* the cogs to the bot (bot.py:90-99); the library delivers an event to    *)
(* the listeners of the cogs that were added.  RadioCog declares no        *)
(* listener, RadioCogEnhanced (radio.py:1018-1042) declares                *)
(* on_voice_state_update; the setup() of radio.py:1044-1045 is the entry   *)
(* point of an extension, which bot.py never loads.                        *)
(***************************************************************************)
Listeners ==
    [cog \in {"RadioCog", "RadioCogEnhanced"} |->
        IF cog = "RadioCogEnhanced" THEN {"on_voice_state_update"} ELSE {}]

\* bot.py:92  await bot.add_cog(RadioCog(bot))
setup == {"RadioCog"}

\* the voice state of member m changes: the event goes to the listeners
Dispatch(m, to) ==
    IF \E cog \in setup : "on_voice_state_update" \in Listeners[cog]
    THEN VoiceStateUpdate(m, to)
    ELSE /\ members' = [members EXCEPT ![m] = to]
         /\ UNCHANGED <<guilds, RADIOS, current_radios, stream_cache, server_stations,
                        auto_leave_tasks, snapshot, now, vcs, play, stop, hist, tasks,
                        notified, emptied, resolve, validate, adds, remove, disk,
                        config, boots>>

NextMain ==
    \/ /\ Quiet
       /\ \E p \in Plays, g \in AllGuilds, name \in DirectStations,
             ch \in CallerChannels : PlayBegin(p, g, name, ch)
    \/ \E p \in Plays : PlayConnect(p)
    \/ \E p \in Plays : PlayProbed(p)
    \/ /\ Quiet
       /\ \E s \in Stops, g \in AllGuilds : StopBegin(s, g)
    \/ \E s \in Stops : StopDisconnected(s)
    \/ \E m \in Members, to \in Channels \cup {NoChannel} :
         (members[m] # NoChannel \/ to # NoChannel) /\ Dispatch(m, to)

SpecMain == Init /\ [][NextMain]_vars

(***************************************************************************)
(* Two guilds side by side: member m1 is in the voice channels of guild 1, *)
(* member m2 in the one of guild 2.  The commands of one guild are called  *)
(* one after the other, those of different guilds overlap; the idle        *)
(* monitor runs.  A voice state belongs to one guild: m1 leaves the channel *)
(* c1 and comes back, m2 stays where it is.                                *)
(***************************************************************************)
GuildOfMember == [m \in Members |-> IF m = "m1" THEN 1 ELSE 2]

HomeChannel == [m \in Members |-> IF m = "m1" THEN "c1" ELSE "d1"]

InitGuilds ==
    /\ guilds = AllGuilds
    /\ RADIOS = ConfigRadios
    /\ current_radios = {}
    /\ stream_cache = <<>>
    /\ server_stations = <<>>
    /\ auto_leave_tasks = {}
    /\ snapshot = NoFile
    /\ now = 0
    /\ vcs = [h \in Plays |-> NoVc]
    /\ play = [p \in Plays |-> NewPlay]
    /\ stop = [s \in Stops |-> NewStop]
    /\ hist = [p \in Plays |-> NewHist]
    /\ members = HomeChannel
    /\ tasks = [t \in Timers |-> NewTask]
    /\ notified = {}
    /\ emptied = [p \in Plays |-> 0]
    /\ resolve = [r \in Resolvers |-> NewResolve]
    /\ validate = NoCall
    /\ adds = [a \in Adds |-> NewAdd]
    /\ remove = NoRemove
    /\ disk = NewDisk
    /\ config = ConfigRadios
    /\ boots = 0

\* no command of guild g is suspended at an await
QuietIn(g) ==
    /\ \A p \in Plays : PlayInFlight(p) => play[p].guild # g
    /\ \A s \in Stops : stop[s].pc = "disconnect" => stop[s].guild # g
    /\ \A a \in Adds : adds[a].pc \in {"send", "fetch", "answer"} => adds[a].guild # g
    /\ remove.guild # g

NextGuilds ==
    \/ \E p \in Plays, m \in Members :
         /\ members[m] # NoChannel
         /\ QuietIn(GuildOfChannel[members[m]])
         /\ PlayBegin(p, GuildOfChannel[members[m]], "A", members[m])
    \/ \E p \in Plays : PlayConnect(p)
    \/ \E p \in Plays : PlayProbed(p)
    \/ \E s \in Stops, g \in AllGuilds : QuietIn(g) /\ StopBegin(s, g)
    \/ \E s \in Stops : StopDisconnected(s)
    \/ \E a \in Adds, g \in AllGuilds :
         QuietIn(g) /\ AddBegin(a, g, "admin", "X", UrlDirect)
    \/ \E a \in Adds : AddSent(a)
    \/ \E a \in Adds : AddAnswered(a)
    \/ \E g \in AllGuilds : QuietIn(g) /\ RemoveStation(g, "admin", "X")
    \/ RemoveAnswered
    \/ \E m \in {"m1"}, to \in {HomeChannel["m1"], NoChannel} :
         (members[m] # NoChannel \/ to # NoChannel) /\ VoiceStateUpdate(m, to)
    \/ \E t \in Timers : TimerFire(t)
    \/ \E t \in Timers : TimerDisconnected(t)
    \/ \E t \in Timers : TimerPresence(t)
    \/ \E t \in Timers : TimerSent(t)

SpecGuilds == InitGuilds /\ [][NextGuilds]_vars

(***************************************************************************)
(* Properties.                                                             *)
(***************************************************************************)
SessionsOf(cr, g) == {e \in cr : e.guild = g}

OpenConnections(v, g) == {h \in DOMAIN v : v[h].guild = g /\ v[h].connected}

\* the places of play_radio_static between its step 3 (stop the old
\* playback) and its step 8 (install the Session)
InPlaySteps(p) == play[p].pc \in {"connect", "fetch", "probe"}

\* C1: in every reachable state, also after a burst of concurrent Play calls
\* for one guild, each guild has at most one Session record.
C1_AtMostOneSession ==
    \A g \in AllGuilds : Cardinality(SessionsOf(current_radios, g)) <= 1

\* two Plays of one guild, both called before either installed its Session,
\* both returned Ok
C1_Witness ==
    \E p \in Plays, q \in Plays :
        /\ p # q
        /\ play[p].pc = "done" /\ play[p].result = "Ok"
        /\ play[q].pc = "done" /\ play[q].result = "Ok"
        /\ play[p].guild = play[q].guild
        /\ hist[p].sessionAtCall = {} /\ hist[q].sessionAtCall = {}
        /\ HasSession(current_radios, play[p].guild)

\* C2: two Play calls for the same guild are never both between step 3 and
\* step 8 of Play at the same time.
C2_PlaySerialized ==
    \A p \in Plays, q \in Plays :
        (p # q /\ play[p].guild = play[q].guild) => ~(InPlaySteps(p) /\ InPlaySteps(q))

\* C3: a Play whose third connect attempt fails returns ConnectionFailed and
\* leaves the guild without a Session record, also when a Session existed
\* before the call.
C3_ConnectFailureLeavesIdle ==
    [][\A p \in Plays :
         (play[p].pc = "connect" /\ play[p].attempt = 2 /\ play'[p].pc = "done")
             => /\ play'[p].result = "ConnectionFailed"
                /\ ~HasSession(current_radios', play[p].guild)]_vars

\* C4: for a guild without a Session when Play was called, a Play that fails
\* after the connection was established (resolution, probe or playback
\* start) leaves no Session record and no open voice connection of the guild.
C4_FailedPlayLeavesIdle ==
    [][\A p \in Plays :
         (/\ play[p].pc \in {"fetch", "probe"}
          /\ play'[p].pc = "done"
          /\ play'[p].result \in {"StreamUnavailable", "PlaybackError"}
          /\ hist[p].sessionAtCall = {})
             => /\ ~HasSession(current_radios', play[p].guild)
                /\ OpenConnections(vcs', play[p].guild) = {}]_vars

\* C5: a Play that fails at URL resolution for a guild that had a Session
\* leaves that Session as it was at the call: the same record, its connection
\* still connected.
C5_ResolveFailureKeepsSession ==
    [][\A p \in Plays :
         (/\ play[p].pc = "fetch"
          /\ play'[p].pc = "done"
          /\ play'[p].result = "StreamUnavailable"
          /\ hist[p].sessionAtCall # {})
             => /\ SessionsOf(current_radios', play[p].guild) = hist[p].sessionAtCall
                /\ \A e \in hist[p].sessionAtCall : vcs'[e.voice_client].connected]_vars

\* C6: every Session record holds a voice connection of its guild that is
\* connected; none refers to a connection that has been disconnected.
C6_SessionHasLiveConnection ==
    \A e \in current_radios :
        /\ vcs[e.voice_client].guild = e.guild
        /\ vcs[e.voice_client].connected

\* C7: a Play during which a Stop was issued for its guild does not
\* afterwards start the playback and install a Session.
C7_StopPreemptsPlay ==
    \A p \in Plays :
        (hist[p].stopIssued /\ play[p].pc = "done") => play[p].result # "Ok"

\* C8: Stop on a guild with no Session returns NotPlaying without raising and
\* leaves the session table, the voice connections, the timers, the registry,
\* the cache and the snapshot unchanged, however often it is called.
C8_StopNotPlayingIsNoOp ==
    [][\A s \in Stops :
         (/\ stop[s].pc = "new"
          /\ stop'[s].pc # "new"
          /\ ~HasSession(current_radios, stop'[s].guild))
             => /\ stop'[s].pc = "done"
                /\ stop'[s].result = "NotPlaying"
                /\ UNCHANGED <<RADIOS, current_radios, stream_cache, server_stations,
                               auto_leave_tasks, snapshot, vcs>>]_vars

\* two Stops returned NotPlaying for a guild that has no Session while a
\* voice connection of an earlier, failed Play is still open
C8_Witness ==
    \E s \in Stops, t \in Stops :
        /\ s # t
        /\ stop[s].pc = "done" /\ stop[s].result = "NotPlaying"
        /\ stop[t].pc = "done" /\ stop[t].result = "NotPlaying"
        /\ stop[s].guild = stop[t].guild
        /\ ~HasSession(current_radios, stop[s].guild)
        /\ OpenConnections(vcs, stop[s].guild) # {}

\* C9: after Stop returns for a guild that had a Session, the Session record
\* is deleted and the voice connection is closed, whatever the outcome of the
\* disconnect.
C9_StopLeavesIdle ==
    [][\A s \in Stops :
         (stop[s].pc = "disconnect" /\ stop'[s].pc = "done")
             => /\ ~HasSession(current_radios', stop[s].guild)
                /\ ~vcs'[stop[s].voice_client].connected]_vars

\* C10: no operation ends in an unhandled fault; in particular two
\* overlapping stops of one Session both complete normally.
C10_NoUnhandledFault ==
    \A s \in Stops : stop[s].pc # "raised"

\* the voice client of the Session of guild g
SessionClient(g) == Session(current_radios, g).voice_client

\* a non-bot member is in the channel of this voice client
Listened(h) == \E m \in Members : members[m] = vcs[h].channel

\* C11: once a member-left event has left the bot's channel of a guild with
\* a Session empty and nobody rejoins, the Session is eventually removed, the
\* connection closed and a notification emitted.  Stated on the states the
\* removal has to start from: while that Session is still there, connected
\* and alone, a task of check_voice_channel_empty of the guild is still
\* running (or one ended in a fault of the transport).
C11_EmptiedSessionIsLeft ==
    \A g \in AllGuilds :
        (/\ HasSession(current_radios, g)
         /\ emptied[SessionClient(g)] > 0
         /\ vcs[SessionClient(g)].connected
         /\ ~Listened(SessionClient(g))
         /\ Quiet)
            => \E t \in Timers : tasks[t].guild = g /\ (TaskAlive(t) \/ tasks[t].pc = "raised")

\* C12: an idle timer that fires while a non-bot member is in the bot's
\* channel leaves the Session and its connection unchanged and emits no
\* notification.
C12_FireWithListenerIsNoOp ==
    [][\A t \in Timers :
         (/\ tasks[t].pc = "sleep"
          /\ tasks'[t].pc \notin {"sleep", "cancelled"}
          /\ HasSession(current_radios, tasks[t].guild)
          /\ vcs[SessionClient(tasks[t].guild)].connected
          /\ Listened(SessionClient(tasks[t].guild)))
             => /\ tasks'[t].pc = "done"
                /\ UNCHANGED <<current_radios, vcs, notified, snapshot>>]_vars

\* a timer has fired and ended on a Session that a member-left event had
\* found alone and that a member has rejoined: the Session still plays
C12_Witness ==
    \E t \in Timers, g \in AllGuilds :
        /\ tasks[t].pc = "done" /\ tasks[t].guild = g
        /\ ~HasTimer(auto_leave_tasks, g)
        /\ HasSession(current_radios, g)
        /\ emptied[SessionClient(g)] > 0
        /\ vcs[SessionClient(g)].connected /\ vcs[SessionClient(g)].playing
        /\ Listened(SessionClient(g))
        /\ notified = {}

\* C13: the event of a non-bot member joining the bot's channel while an
\* idle timer is pending for the guild cancels the timer: after the event no
\* timer is pending for the guild.
C13_JoinCancelsTimer ==
    [][\A m \in Members :
         (/\ members'[m] # members[m]
          /\ members'[m] # NoChannel
          /\ BotIn(vcs, members'[m])
          /\ PendingTimers(GuildOfChannel[members'[m]]) # {})
             => \A t \in Timers :
                    ~(tasks'[t].pc = "sleep" /\ tasks'[t].guild = GuildOfChannel[members'[m]])]_vars

\* C14: at most one idle timer is pending per guild, and a member-left event
\* that finds a timer registered for the guild starts no second timer.
C14_OneTimerPerGuild ==
    /\ [](\A g \in AllGuilds : Cardinality(PendingTimers(g)) <= 1)
    /\ [][\A g \in AllGuilds : \A t \in Timers :
             (HasTimer(auto_leave_tasks, g) /\ tasks[t].pc = "new")
                 => ~(tasks'[t].pc = "sleep" /\ tasks'[t].guild = g)]_vars

\* a second member-left event has found the Session alone while the timer of
\* the first one was pending: that timer is the only one ever started
C14_Witness ==
    \E g \in AllGuilds :
        /\ HasSession(current_radios, g)
        /\ emptied[SessionClient(g)] = 2
        /\ Cardinality(PendingTimers(g)) = 1
        /\ HasTimer(auto_leave_tasks, g)
        /\ \A t \in Timers : tasks[t].pc \in {"new", "sleep"}

(***************************************************************************)
(* The playlist formats as the claims on the resolver word them.           *)
(***************************************************************************)
IsDigit(c) == \E i \in 1..10 : CharAt("0123456789", i) = c

\* the extension of a url: its text from the last "." on, in lower case
ExtensionOf ==
    [u \in Urls |->
        LET dots == {i \in 1..Len(u) : CharAt(u, i) = "."}
        IN  IF dots = {} THEN ""
            ELSE Lower(SubSeq(u, CHOOSE i \in dots : \A j \in dots : j <= i, Len(u)))]

PlaylistExtensions == {".m3u", ".m3u8", ".pls"}

\* the value of a line File<n>=<value> whose value starts with http/https
PlsFileValue(line) ==
    LET l == Strip(line)
        eqs == {k \in 6..Len(l) :
                   /\ SubSeq(l, 1, 4) = "File"
                   /\ \A j \in 5..(k - 1) : IsDigit(CharAt(l, j))
                   /\ CharAt(l, k) = "="}
    IN  IF eqs # {} /\ StartsWith(SubSeq(l, (CHOOSE k \in eqs : TRUE) + 1, Len(l)), "http")
        THEN SubSeq(l, (CHOOSE k \in eqs : TRUE) + 1, Len(l))
        ELSE NoneVal

\* a non-empty line that does not start with "#" and starts with http/https
M3uStreamLine(line) ==
    LET l == Strip(line)
    IN  IF Len(l) > 0 /\ CharAt(l, 1) # "#" /\ StartsWith(l, "http") THEN l ELSE NoneVal

QualifyingEntry(body, pls, i) == IF pls THEN PlsFileValue(body[i]) ELSE M3uStreamLine(body[i])

\* the first qualifying entry of each body, top to bottom, NoneVal without one
FirstQualifying ==
    [body \in Bodies |-> [pls \in BOOLEAN |->
        LET idx == {i \in 1..Len(body) : QualifyingEntry(body, pls, i) # NoneVal}
        IN  IF idx = {} THEN NoneVal
            ELSE QualifyingEntry(body, pls, CHOOSE i \in idx : \A j \in idx : i <= j)]]

\* what a call that has fetched a body should have found in it
Expected(r) == FirstQualifying[resolve[r].body][(ExtensionOf[resolve[r].url] = ".pls")]

Fetched(r) == resolve[r].pc = "done" /\ resolve[r].fetched /\ resolve[r].body \in Bodies

\* C15: Resolve on a playlist url whose fetched body holds no qualifying
\* http(s) entry returns ResolutionFailed, never the raw playlist url.
C15_NoEntryFails ==
    \A r \in Resolvers :
        (Fetched(r) /\ Expected(r) = NoneVal) => resolve[r].value = NoneVal

\* C16: two Resolve calls with one url less than the TTL apart return the
\* same resolved url and the second performs no network fetch.
C16_ResolveIdempotent ==
    \A r1 \in Resolvers, r2 \in Resolvers :
        (/\ r1 < r2
         /\ resolve[r1].pc # "new" /\ resolve[r2].pc # "new"
         /\ resolve[r1].url = resolve[r2].url
         /\ resolve[r2].began - resolve[r1].began < CACHE_DURATION)
            => /\ ~resolve[r2].fetched
               /\ (resolve[r1].pc = "done" /\ resolve[r2].pc = "done")
                      => resolve[r2].value = resolve[r1].value

\* C16, amended: when a Resolve call returned the entry it stored in or took
\* from the cache, a call with the same url that begins with that entry in
\* the cache, less than the TTL after the entry was stored, returns the same
\* resolved url and performs no network fetch.
C16_HitReturnsStoredEntry ==
    \A r1 \in Resolvers, r2 \in Resolvers :
        (/\ r1 # r2
         /\ resolve[r1].pc = "done" /\ resolve[r2].pc = "done"
         /\ resolve[r1].url = resolve[r2].url
         /\ resolve[r1].left # NoEntry
         /\ resolve[r1].value = resolve[r1].left.resolved_url
         /\ resolve[r2].seen = resolve[r1].left
         /\ resolve[r2].began - resolve[r1].left.timestamp < CACHE_DURATION)
            => /\ resolve[r2].value = resolve[r1].value
               /\ ~resolve[r2].fetched

\* a call resolved a playlist by a fetch, a later call, begun one second
\* before the entry expires, returned the same url without a fetch
C16_Witness ==
    \E r1 \in Resolvers, r2 \in Resolvers :
        /\ Fetched(r1) /\ resolve[r1].value = Expected(r1) /\ Expected(r1) # NoneVal
        /\ resolve[r2].pc = "done" /\ resolve[r2].url = resolve[r1].url
        /\ resolve[r2].seen = resolve[r1].left
        /\ resolve[r2].began = resolve[r1].left.timestamp + (CACHE_DURATION - 1)
        /\ resolve[r2].value = resolve[r1].value
        /\ ~resolve[r2].fetched

\* C17: Resolve never returns a value taken from a cache entry whose age is
\* at least the TTL: the lookup discards the entry, the playlist is fetched
\* again, and a successful fresh resolution stores the entry anew with a new
\* timestamp.
C17_ExpiredEntryNotReused ==
    /\ [](\A r \in Resolvers :
            (/\ resolve[r].pc # "new"
             /\ resolve[r].seen # NoEntry
             /\ resolve[r].began - resolve[r].seen.timestamp >= CACHE_DURATION)
                => resolve[r].fetched)
    /\ [][\A r \in Resolvers :
             (/\ resolve[r].pc = "new" /\ resolve'[r].pc # "new"
              /\ resolve'[r].seen # NoEntry
              /\ now - resolve'[r].seen.timestamp >= CACHE_DURATION)
                 => resolve'[r].url \notin DOMAIN stream_cache']_vars
    /\ [][\A r \in Resolvers :
             (/\ resolve[r].pc = "fetch" /\ resolve'[r].pc = "done"
              /\ resolve'[r].body \in Bodies
              /\ FirstQualifying[resolve'[r].body][(ExtensionOf[resolve[r].url] = ".pls")]
                     # NoneVal)
                 => /\ resolve[r].url \in DOMAIN stream_cache'
                    /\ stream_cache'[resolve[r].url] =
                           [resolved_url |-> resolve'[r].value, timestamp |-> now]]_vars

\* a call found an entry as old as the TTL, fetched the playlist again and
\* returned another url than the entry held; the cache holds the new one
C17_Witness ==
    \E r \in Resolvers :
        /\ Fetched(r)
        /\ resolve[r].seen # NoEntry
        /\ resolve[r].began - resolve[r].seen.timestamp = CACHE_DURATION
        /\ resolve[r].value \notin {NoneVal, resolve[r].url, resolve[r].seen.resolved_url}
        /\ resolve[r].url \in DOMAIN stream_cache
        /\ stream_cache[resolve[r].url].resolved_url = resolve[r].value
        /\ stream_cache[resolve[r].url].timestamp > resolve[r].seen.timestamp

C19_OtherExtensionUnchanged ==
    [][\A r \in Resolvers :
         (/\ resolve[r].pc = "new" /\ resolve'[r].pc # "new"
          /\ ExtensionOf[resolve'[r].url] \notin PlaylistExtensions)
             => /\ resolve'[r].pc = "done"
                /\ resolve'[r].value = resolve'[r].url
                /\ ~resolve'[r].fetched
                /\ stream_cache' = stream_cache]_vars

\* a url ending in .mp3 was returned as it is while the cache held an entry
C19_Witness ==
    \E r \in Resolvers :
        /\ resolve[r].pc = "done"
        /\ resolve[r].url = UrlDirect
        /\ resolve[r].value = UrlDirect
        /\ ~resolve[r].fetched
        /\ DOMAIN stream_cache # {}

\* C20: Validate returns Unsafe for every url whose scheme is not http/https,
\* whose host is loopback or private, or whose file name has an executable
\* extension; a url that is not http(s) gets the reason of the scheme.
C20_UnsafeUrlsRejected ==
    validate # NoCall =>
        /\ validate.scheme \notin {"http://", "https://"}
               => ~validate.safe /\ validate.reason = ReasonScheme
        /\ validate.host \in LocalHosts => ~validate.safe
        /\ validate.file \in ExecutableNames => ~validate.safe

(***************************************************************************)
(* The streaming signatures and the allow-list, read off the parts of the  *)
(* url: the extension of the file name, the words of the url, the host.    *)
(***************************************************************************)
StreamExtensions == {".mp3", ".aac", ".ogg", ".wav", ".flac", ".m4a", ".m3u", ".m3u8", ".pls"}

\* the file name ends in one of the audio or playlist extensions
HasStreamExtension(file) == \E e \in StreamExtensions : EndsWith(Lower(file), e)

HasStreamWord(host, file) ==
    \E w \in {"icecast", "shoutcast", "stream"} : Contains(Lower(host \o "/" \o file), w)

\* the host is a domain of the allow-list or a subdomain of one
HostAllowed(host) ==
    \E d \in trusted_domains : Lower(host) = d \/ EndsWith(Lower(host), "." \o d)

\* C21: for an http(s) url whose host is public and whose file name is not an
\* executable, Validate returns Safe exactly when the url has a streaming
\* signature or its host is on the allow-list.
C21_PublicStreamUrlIsSafe ==
    (/\ validate # NoCall
     /\ validate.scheme \in {"http://", "https://"}
     /\ validate.host \in PublicHosts
     /\ validate.file \notin ExecutableNames)
        => (validate.safe <=> \/ HasStreamExtension(validate.file)
                              \/ HasStreamWord(validate.host, validate.file)
                              \/ HostAllowed(validate.host))

(***************************************************************************)
(* The station commands.  A claim about AddStation or RemoveStation is a   *)
(* claim about a call by an administrator: the permission check precedes   *)
(* the operations of the registry.                                         *)
(***************************************************************************)
\* the name is a global station or a station of the guild
InMergedView(g, name) ==
    \/ name \in DOMAIN RADIOS
    \/ g \in DOMAIN server_stations /\ name \in DOMAIN server_stations[g]

\* invocation a of station_add is called in this step
AddCalled(a) == adds[a].pc = "new" /\ adds'[a].pc # "new"

\* C22 as claimed: AddStation returns Conflict and leaves the registry
\* unchanged whenever the name is already in the merged view of the guild.
C22_ExistingNameIsConflict ==
    [][\A a \in Adds :
         (/\ AddCalled(a)
          /\ IsAdministrator(adds'[a].caller)
          /\ InMergedView(adds'[a].guild, adds'[a].name))
             => /\ adds'[a].result = "Conflict"
                /\ server_stations' = server_stations
                /\ RADIOS' = RADIOS]_vars

\* C22: AddStation with a url that Validate accepts returns Conflict whenever
\* the name is already in the merged view of the guild; whatever the url,
\* such a call leaves the registry and the snapshot unchanged.
C22_SafeExistingNameIsConflict ==
    [][\A a \in Adds :
         (/\ AddCalled(a)
          /\ IsAdministrator(adds'[a].caller)
          /\ InMergedView(adds'[a].guild, adds'[a].name))
             => /\ SafeAddUrl[adds'[a].url] => adds'[a].result = "Conflict"
                /\ adds'[a].pc = "answer"
                /\ server_stations' = server_stations
                /\ RADIOS' = RADIOS
                /\ snapshot' = snapshot]_vars

\* a second AddStation of a guild station, with another url, was answered
\* with Conflict and the station has the url of the first one
C22_Witness ==
    \E a \in Adds :
        /\ adds[a].pc = "answer"
        /\ adds[a].result = "Conflict"
        /\ adds[a].guild \in DOMAIN server_stations
        /\ adds[a].name \in DOMAIN server_stations[adds[a].guild]
        /\ server_stations[adds[a].guild][adds[a].name].url # adds[a].url

\* C23: in every reachable state, after the load at startup and any sequence
\* of AddStation and RemoveStation, no guild's station map contains a name
\* that is also the name of a global station.
C23_NoShadowing ==
    \A g \in DOMAIN server_stations : DOMAIN server_stations[g] \cap DOMAIN RADIOS = {}

\* station_remove is called in this step
RemoveCalled == remove = NoRemove /\ remove' # NoRemove

\* C24: RemoveStation on a name of the global set returns IsGlobal and leaves
\* the whole registry unchanged; no operation of the running process removes
\* or alters a global station.
C24_GlobalStationsStay ==
    /\ [][(/\ RemoveCalled
            /\ IsAdministrator(remove'.caller)
            /\ remove'.name \in DOMAIN RADIOS)
               => /\ remove'.result = "IsGlobal"
                  /\ server_stations' = server_stations
                  /\ RADIOS' = RADIOS]_vars
    /\ [][boots' = boots => RADIOS' = RADIOS]_vars

\* a session of the guild names the station
SessionNames(g, name) == \E e \in current_radios : e.guild = g /\ e.name = name

IsGuildStation(g, name) ==
    g \in DOMAIN server_stations /\ name \in DOMAIN server_stations[g]

\* a station leaves the stations of a guild only when no session of that
\* guild names it
RemovedOnlyWhenUnused ==
    [][\A g \in AllGuilds, name \in StationNames :
         (/\ boots' = boots
          /\ IsGuildStation(g, name)
          /\ ~(g \in DOMAIN server_stations' /\ name \in DOMAIN server_stations'[g]))
             => ~SessionNames(g, name)]_vars

\* C25 as claimed: RemoveStation returns InUse and leaves the registry
\* unchanged whenever the session of the guild is playing that station.
C25_PlayingStationIsInUse ==
    /\ [][(/\ RemoveCalled
            /\ IsAdministrator(remove'.caller)
            /\ SessionNames(remove'.guild, remove'.name))
               => /\ remove'.result = "InUse"
                  /\ server_stations' = server_stations
                  /\ RADIOS' = RADIOS]_vars
    /\ RemovedOnlyWhenUnused

\* C25: RemoveStation on a station of the guild returns InUse and leaves the
\* registry and the snapshot unchanged whenever the session of the guild is
\* playing that station; whatever the station, the registry is unchanged
\* then, and a station is removed only when no session of the guild names it.
C25_PlayingGuildStationIsInUse ==
    /\ [][(/\ RemoveCalled
            /\ IsAdministrator(remove'.caller)
            /\ SessionNames(remove'.guild, remove'.name))
               => /\ IsGuildStation(remove'.guild, remove'.name) => remove'.result = "InUse"
                  /\ server_stations' = server_stations
                  /\ RADIOS' = RADIOS
                  /\ snapshot' = snapshot]_vars
    /\ RemovedOnlyWhenUnused

\* RemoveStation was answered with InUse while the session of the guild
\* plays the guild's station of that name
C25_Witness ==
    /\ remove.result = "InUse"
    /\ SessionNames(remove.guild, remove.name)
    /\ IsGuildStation(remove.guild, remove.name)

\* the fetch of invocation a of station_add returns in this step
AddFetchReturned(a) == adds[a].pc = "fetch" /\ adds'[a].pc = "answer"

\* the url of a station_add does not resolve: the fetch of the playlist
\* raised, or its body holds no qualifying entry
FailsToResolve(url, body) ==
    body = FetchError \/ FirstQualifying[body][(ExtensionOf[url] = ".pls")] = NoneVal

\* every station that enters the stations of a guild while the process runs
\* has a url that Validate accepts
StoredUrlsAreSafe ==
    [][\A g \in AllGuilds, name \in StationNames :
         (/\ boots' = boots
          /\ ~IsGuildStation(g, name)
          /\ g \in DOMAIN server_stations' /\ name \in DOMAIN server_stations'[g])
             => is_safe_url(server_stations'[g][name].url).safe]_vars

\* an AddStation with an Unsafe url is rejected in the step that calls it,
\* with nothing stored or persisted
UnsafeAddRejected ==
    [][\A a \in Adds :
         (/\ AddCalled(a)
          /\ IsAdministrator(adds'[a].caller)
          /\ ~is_safe_url(adds'[a].url).safe)
             => /\ adds'[a].pc = "answer" /\ adds'[a].result = "Unsafe"
                /\ server_stations' = server_stations
                /\ snapshot' = snapshot]_vars

\* an AddStation whose url fails to resolve stores nothing
UnresolvedAddStoresNothing ==
    [][\A a \in Adds :
         (AddFetchReturned(a) /\ FailsToResolve(adds[a].url, adds'[a].body))
             => /\ adds'[a].result = "InvalidStream"
                /\ server_stations' = server_stations
                /\ snapshot' = snapshot]_vars

\* C26: every guild station stored through AddStation has a url for which
\* Validate returns Safe: an AddStation whose url is Unsafe is rejected before
\* anything is stored or persisted, and one whose url fails to resolve also
\* stores nothing.
C26_OnlyValidatedStationsStored ==
    StoredUrlsAreSafe /\ UnsafeAddRejected /\ UnresolvedAddStoresNothing

(***************************************************************************)
(* The snapshot.                                                           *)
(***************************************************************************)
\* the state in memory projected to what a snapshot holds: the global
\* stations, the stations of the guilds, and of each session the guild (as
\* the key of the file), the name of the station, the url and the start time
Projection ==
    [current_radios |-> {[guild |-> ToString(e.guild), name |-> e.name, url |-> e.url,
                          start_time |-> e.start_time] : e \in current_radios},
     radios |-> RADIOS,
     server_stations |-> [k \in {ToString(g) : g \in DOMAIN server_stations} |->
                             server_stations[CHOOSE g \in AllGuilds : ToString(g) = k]]]

\* C27 as claimed: whenever no operation is in flight and the writes of the
\* snapshot succeed, the snapshot that exists equals the state in memory
\* (stated for the runs that read it without a failure and whose config.yaml
\* was not edited).
C27_SnapshotIsState ==
    (/\ QuietRegistry
     /\ disk.last # "failed" /\ disk.read # "failed"
     /\ snapshot \notin {NoFile, Corrupt}
     /\ config = ConfigRadios)
        => snapshot = Projection

\* C27: whenever no operation is in flight, the process has written the
\* snapshot and its last write succeeded, the snapshot equals the state in
\* memory: every mutating operation writes it after its mutation.
C27_WrittenSnapshotIsState ==
    (QuietRegistry /\ disk.last = "ok") => snapshot = Projection

\* a guild has a station and a session, nothing is in flight and the last
\* write succeeded
C27_Witness ==
    /\ QuietRegistry
    /\ disk.last = "ok"
    /\ current_radios # {}
    /\ DOMAIN server_stations # {}

\* the process is started again in this step, with config.yaml as it was,
\* and reads without a failure the snapshot that the ended process saved of
\* its last state
RoundTrip ==
    /\ boots' # boots
    /\ config' = config
    /\ snapshot = Projection
    /\ disk'.read = "ok"

\* the round trip keeps the global stations and the stations of the guilds
RoundTripKeepsStations ==
    [][RoundTrip => RADIOS' = RADIOS /\ server_stations' = server_stations]_vars

\* C28: saving the current state and loading the snapshot into a fresh
\* instance yields the same global and guild stations and the same metadata
\* of the active sessions (station name, url, start time per guild) as the
\* instance that saved it.
C28_SnapshotRoundTrip ==
    [][RoundTrip => Projection' = Projection]_vars

\* the process was started again and no play has succeeded since
NoPlaySinceRestart == boots > 0 /\ \A p \in Plays : play[p].result # "Ok"

\* C29: after a restart no guild has a session, whatever sessions the loaded
\* snapshot lists: Stop and Status return NotPlaying for every guild until a
\* new Play succeeds.
C29_RestartDropsSessions ==
    /\ [][boots' # boots => current_radios' = {}]_vars
    /\ [](NoPlaySinceRestart =>
            \A g \in AllGuilds : /\ ~HasSession(current_radios, g)
                                 /\ show_info_static(g) = "NotPlaying")
    /\ [][\A s \in Stops :
            (stop[s].pc = "new" /\ stop'[s].pc # "new" /\ NoPlaySinceRestart)
                => stop'[s].pc = "done" /\ stop'[s].result = "NotPlaying"]_vars

\* the snapshot that the process loaded lists a session of guild 1, and a
\* Stop in that guild has returned NotPlaying
C29_Witness ==
    /\ NoPlaySinceRestart
    /\ disk.read = "ok"
    /\ snapshot \notin {NoFile, Corrupt}
    /\ \E e \in snapshot.current_radios : e.guild = "1"
    /\ \E s \in Stops : /\ stop[s].pc = "done" /\ stop[s].guild = 1
                         /\ stop[s].result = "NotPlaying"

\* a step of the running process while STATE_FILE cannot be written
WriteFails == ~disk.writable /\ boots' = boots

\* station_add ends as it does when the write succeeds: the station is
\* stored and the answer is Ok, or the url did not resolve
AddEndsAsWritten(a) ==
    \/ /\ adds'[a].result = "Ok"
       /\ adds[a].guild \in DOMAIN server_stations'
       /\ adds[a].name \in DOMAIN server_stations'[adds[a].guild]
       /\ server_stations'[adds[a].guild][adds[a].name].url = adds[a].url
       /\ disk'.last = "failed"
    \/ /\ adds'[a].result = "InvalidStream"
       /\ adds[a].pc = "fetch"
       /\ ResolveFetched(stream_cache, adds[a].url, adds'[a].body, now).value = NoneVal
       /\ server_stations' = server_stations

GuildState(g) ==
    [session |-> {e \in current_radios : e.guild = g},
     connections |-> {<<h, vcs[h]>> : h \in {k \in DOMAIN vcs : vcs[k].guild = g}},
     timer |-> {e \in auto_leave_tasks : e.guild = g},
     pending |-> PendingTimers(g),
     stations |-> StationsOf(server_stations, g)]

\* the step is one of an operation of guild g: of a Play, a Stop, an
\* AddStation or a RemoveStation called in g, of a timer of g, or the voice
\* state of a member of g changed
StepFor(g) ==
    \/ \E p \in Plays : play'[p] # play[p] /\ play'[p].guild = g
    \/ \E s \in Stops : stop'[s] # stop[s] /\ stop'[s].guild = g
    \/ \E a \in Adds : adds'[a] # adds[a] /\ (adds'[a].guild = g \/ adds[a].guild = g)
    \/ remove' # remove /\ (remove'.guild = g \/ remove.guild = g)
    \/ \E t \in Timers : tasks'[t] # tasks[t] /\ tasks'[t].guild = g
    \/ \E m \in Members : members'[m] # members[m] /\ GuildOfMember[m] = g

\* C31: an operation scoped to guild A (Play, Stop, AddStation,
\* RemoveStation, a member event or the firing of the idle timer of A) leaves
\* the Session record, the voice connections, the idle timer and the stations
\* of every other guild unchanged.
C31_OtherGuildsUnchanged ==
    [][\A A \in AllGuilds, B \in AllGuilds :
         (A # B /\ StepFor(A)) => GuildState(B)' = GuildState(B)]_vars

\* guild 2 has a Session that plays while a Stop of guild 1 has removed the
\* Session of guild 1
C31_Witness ==
    /\ HasSession(current_radios, 2)
    /\ vcs[Session(current_radios, 2).voice_client].playing
    /\ ~HasSession(current_radios, 1)
    /\ \E s \in Stops : stop[s].guild = 1 /\ stop[s].result = "Stopped"

\* C32: a Play that aborts with NotFound (the station is not in the merged
\* view of the guild) or with NoVoiceChannel (the caller is in no voice
\* channel) changes nothing: the Session, the voice connections, the cache,
\* the stations, the timers and the snapshot stay as they are; NotFound is
\* reported in preference to NoVoiceChannel when both apply.
C32_AbortedPlayChangesNothing ==
    [][\A p \in Plays :
         (play[p].pc = "new" /\ play'[p].pc # "new")
             => /\ ~InMergedView(play'[p].guild, play'[p].station)
                      => play'[p].pc = "done" /\ play'[p].result = "NotFound"
                /\ (/\ InMergedView(play'[p].guild, play'[p].station)
                    /\ play'[p].channel = NoChannel)
                      => play'[p].pc = "done" /\ play'[p].result = "NoVoiceChannel"
                /\ play'[p].result \in {"NotFound", "NoVoiceChannel"}
                      => UNCHANGED <<RADIOS, current_radios, stream_cache, server_stations,
                                     auto_leave_tasks, snapshot, vcs>>]_vars

\* a Play of an unknown station by a caller in no voice channel returned
\* NotFound while the Session of the guild plays on its connection
C32_Witness ==
    \E p \in Plays :
        /\ play[p].pc = "done" /\ play[p].result = "NotFound"
        /\ play[p].channel = NoChannel
        /\ HasSession(current_radios, play[p].guild)
        /\ vcs[Session(current_radios, play[p].guild).voice_client].playing

\* what resolve_stream_url returns for a url: the url itself, or for a
\* playlist what it takes from a fetched body
ResolverReturns(url) ==
    IF ~IsPlaylistUrl(url) THEN {url}
    ELSE {ResolveFetched(<<>>, url, body, 0).value : body \in Bodies}

\* a Play that is past the resolver holds what the resolver returned for the
\* url its station is configured with
ResolvedForStation ==
    \A p \in Plays :
        play[p].pc = "probe"
            => /\ play[p].url = ConfigRadios[play[p].station].url
               /\ play[p].resolved \in ResolverReturns(play[p].url)

\* C33: after a successful Play(channel, guild, station) the Session record
\* of the guild names that station, holds the url the resolver returned for
\* the url the station is configured with, and holds a connection that is
\* connected to the caller's channel and plays; an earlier Session of the
\* guild is replaced.
C33_SuccessfulPlayInstallsSession ==
    /\ []ResolvedForStation
    /\ [][\A p \in Plays :
            (play[p].pc = "probe" /\ play'[p].pc = "done" /\ play'[p].result = "Ok")
                => /\ SessionsOf(current_radios', play[p].guild)
                        = {[guild |-> play[p].guild, name |-> play[p].station,
                            voice_client |-> p, url |-> play[p].resolved,
                            start_time |-> now]}
                   /\ vcs'[p].guild = play[p].guild
                   /\ vcs'[p].channel = play[p].channel
                   /\ vcs'[p].connected
                   /\ vcs'[p].playing]_vars

\* the second of two successful Plays of a guild has replaced the Session of
\* the first by one that holds an entry of the station's playlist
C33_Witness ==
    /\ \A p \in Plays : play[p].pc = "done" /\ play[p].result = "Ok" /\ play[p].guild = 1
    /\ \E e \in current_radios :
          /\ e.guild = 1 /\ e.voice_client = 2 /\ e.name = "B" /\ e.url = StreamA
          /\ vcs[2].playing

\* C34: a Play for a guild that already has a voice connection reuses it: the
\* Play that passes its checks leaves the connections of the guild
\* connected (it neither disconnects nor re-creates them), and the Session
\* of a successful Play holds a handle the guild had when the Play was called.
C34_PlayReusesConnection ==
    /\ [][\A p \in Plays :
            (play[p].pc = "new" /\ play'[p].pc = "connect")
                => \A h \in OpenConnections(vcs, play'[p].guild) : vcs'[h].connected]_vars
    /\ [][\A p \in Plays :
            (/\ play[p].pc = "probe" /\ play'[p].pc = "done" /\ play'[p].result = "Ok"
             /\ hist[p].sessionAtCall # {})
                => \A e \in SessionsOf(current_radios', play[p].guild) :
                      e.voice_client \in {o.voice_client : o \in hist[p].sessionAtCall}]_vars

\* C35: one Play makes at most 3 connect attempts: a transient fault (a
\* timeout, a closed connection, "already connected" followed by the forced
\* disconnect) on attempt 1 or 2 leads to a further attempt, a success on any
\* attempt proceeds to the resolution of the url, and ConnectionFailed is
\* returned for transient faults only after the third of them in a row.
C35_ThreeConnectAttempts ==
    /\ [](\A p \in Plays : play[p].attempt \in 0..2)
    /\ [][\A p \in Plays :
            (play[p].pc = "connect" /\ play'[p] # play[p])
                => /\ \/ /\ play'[p].pc \in {"fetch", "probe"}
                         /\ play'[p].attempt = play[p].attempt
                         /\ vcs'[p].connected
                      \/ /\ play'[p].pc = "connect"
                         /\ play[p].attempt < 2
                         /\ play'[p].attempt = play[p].attempt + 1
                      \/ /\ play'[p].pc = "done"
                         /\ play'[p].result = "ConnectionFailed"
                         /\ play[p].attempt = 2 \/ play'[p].fault = "other"
                   /\ (play[p].attempt < 2 /\ VoiceClientsOf(vcs, play[p].guild) # {})
                         => play'[p].pc = "connect"
                   /\ (play[p].attempt < 2 /\ vcs'[p].registered /\ ~vcs'[p].connected)
                         => play'[p].pc = "connect"]_vars

\* a Play is past its connect loop on its third attempt, after two transient
\* faults
C35_Witness ==
    \E p \in Plays : play[p].pc = "probe" /\ play[p].attempt = 2 /\ vcs[p].connected

\* C36: in the process as main() assembles it the idle monitor is active: the
\* event of a member leaving the channel of a Session, which leaves the
\* channel without a member, reaches the monitor's handler and starts the
\* idle timer of the guild.
C36_MonitorIsActive ==
    [][\A m \in Members :
         (/\ members[m] # NoChannel
          /\ members'[m] # members[m]
          /\ HasSession(current_radios, GuildOfChannel[members[m]])
          /\ LET h == Session(current_radios, GuildOfChannel[members[m]]).voice_client
             IN  vcs[h].connected /\ vcs[h].channel = members[m]
          /\ MembersIn(members', members[m]) = {}
          /\ ~HasTimer(auto_leave_tasks, GuildOfChannel[members[m]]))
             => HasTimer(auto_leave_tasks', GuildOfChannel[members[m]])]_vars

\* C37: auto_leave_tasks holds an entry for a guild only while the timer of
\* the entry has not finished: every timer that finishes, whatever it found,
\* has removed its entry.
C37_EntryOnlyWhilePending ==
    \A e \in auto_leave_tasks : TaskAlive(e.task)

\* C38: a stop removes only the Session it observed when it started: the
\* Session that a Play installed while the stop waited for its disconnect
\* stays, and no voice client is connected and playing in a guild that has
\* no Session record.
C38_StopRemovesOwnSession ==
    /\ [][\A s \in Stops :
            (stop[s].pc = "disconnect" /\ stop'[s].pc # "disconnect")
                => \A e \in SessionsOf(current_radios, stop[s].guild) :
                      e.voice_client # stop[s].voice_client => e \in current_radios']_vars
    /\ [](\A h \in DOMAIN vcs :
            (vcs[h].connected /\ vcs[h].playing) => HasSession(current_radios, vcs[h].guild))

\* C39: of two concurrent AddStation calls with the same guild and name at
\* most one returns Ok: a call stores its station only under a name that is
\* free, so the station the first one stored is not overwritten.
C39_OneAddWins ==
    /\ [][\A a \in Adds :
            (/\ adds[a].pc \in {"send", "fetch"}
             /\ adds'[a].pc = "answer" /\ adds'[a].result = "Ok")
                => ~InMergedView(adds[a].guild, adds[a].name)]_vars
    /\ [](\A a \in Adds, b \in Adds :
            (/\ a # b
             /\ adds[a].pc = "answer" /\ adds[a].result = "Ok"
             /\ adds[b].pc = "answer" /\ adds[b].result = "Ok")
                => adds[a].guild # adds[b].guild \/ adds[a].name # adds[b].name)

\* C40: in every reachable state the station named by the Session of a guild
\* is in the merged view of that guild, also when a RemoveStation of the
\* station ran while the Play that installs the Session was in flight.
C40_SessionStationInView ==
    \A e \in current_radios : InMergedView(e.guild, e.name)

====
